---- MODULE Spec2Model ----
(***************************************************************************)
(* Completion-context construction of ide-completion                       *)
(* (crates/ide-completion/src/context.rs): CompletionContext::new, the     *)
(* dual-tree expansion walker expand_and_fill and the classifier fill.     *)
(*                                                                         *)
(* Syntax trees are values [side, gen, len]: which of the two files the     *)
(* tree descends from, how many expansions produced it and the length of   *)
(* its text.  The parser and the semantic model are external: their        *)
(* answers are drawn from small sets in the step that asks for them.       *)
(***************************************************************************)
EXTENDS Integers, Sequences, FiniteSets, TLC

\* ------------------------------------------------------------------ bounds
MaxLen == 1          \* longest text of an original tree
MaxDepth == 2        \* most expansions nested around the cursor
MaxAncestors == 2    \* most enclosing items around the cursor

\* length of COMPLETION_MARKER, "intellijRulezz"
MarkerLen == 14

\* ------------------------------------------------------------ Option<T>
None == <<>>
Some(x) == <<x>>
IsSome(o) == o # <<>>
Unwrap(o) == o[1]

\* ------------------------------------------------------- trees and tokens
Tree(side, gen, len) == [side |-> side, gen |-> gen, len |-> len]

Token(tree, start, end) == [tree |-> tree, start |-> start, end |-> end]

\* rowan's SyntaxNode::text_range().end() of a root node
TextEnd(tree) == tree.len

\* the empty tree not told apart
TokenAtOffsetNeverNone(tree) == FALSE

\* SyntaxNode::token_at_offset(offset) is TokenAtOffset::None exactly for an
\* empty tree; otherwise the lookup yields a token whose range contains the
\* offset.
TokenAtOffsetIsNone(tree) == tree.len = 0

\* a syntax node or token of a tree
Node(tree, kind) == [tree |-> tree, kind |-> kind]

NoTree == Tree("none", 0, 0)
NoToken == Token(NoTree, 0, 0)

VARIABLES
    position,          \* FilePosition: text length of the file and the offset
    pc,                \* position in new / expand_and_fill / fill
    original_file,     \* walker local
    speculative_file,  \* walker local
    offset,            \* walker local
    fake_ident_token,  \* walker local
    derive_ctx,        \* walker local, Option<(actual, fake, offset, attr)>
    ancestors_left,    \* item pairs of ancestor_items not yet visited
    ev,                \* the answers the last step got from parser and sema
    fill_calls,        \* number of calls of fill
    fill_args,         \* the arguments of the call of fill
    ctx,               \* the CompletionContext under construction
    cancelled,         \* a semantic-model call of this request was cancelled
    returned,          \* what the caller of new received
    call,              \* a function of the crate called on its own: its arguments
    ret                \* Option of what that call returned

walker == <<original_file, speculative_file, offset, fake_ident_token>>

query == <<call, ret>>

vars == <<position, pc, original_file, speculative_file, offset, fake_ident_token,
          derive_ctx, ancestors_left, ev, fill_calls, fill_args, ctx, cancelled,
          returned, call, ret>>

\* ------------------------------------------------------------- step log
NoEv == [step |-> "init", orig_ok |-> FALSE, spec_ok |-> FALSE,
         new_offset |-> 0, orig_end |-> 0, path0 |-> None, path1 |-> None,
         has_args |-> FALSE, pairs |-> 0, in_for_loop |-> FALSE,
         filled |-> FALSE, decider |-> None, macro_failed |-> FALSE,
         name_like |-> "unasked"]

\* ------------------------------------------------------- the caller's view
Pending == [tag |-> "pending", ctx |-> None]
ReturnNone == [tag |-> "None", ctx |-> None]
Unwound == [tag |-> "unwound", ctx |-> None]

\* ------------------------------------------------------------------ Init
Init ==
    /\ position \in {[len |-> l, offset |-> o] : l \in 0..MaxLen, o \in 0..MaxLen}
    /\ position.offset <= position.len
    /\ pc = "new"
    /\ original_file = NoTree
    /\ speculative_file = NoTree
    /\ offset = 0
    /\ fake_ident_token = NoToken
    /\ derive_ctx = None
    /\ ancestors_left = 0
    /\ ev = NoEv
    /\ fill_calls = 0
    /\ fill_args = None
    /\ ctx = None
    /\ cancelled = FALSE
    /\ returned = Pending
    /\ call = [fn |-> "none"]
    /\ ret = None

\* ------------------------------------------------ CompletionContext::new
\* the context as built at the struct literal of new, before expand_and_fill:
\* the identifier context is the dummy value
InitialCtx ==
    [ident_ctx |-> [variant |-> "UnexpandedAttrTT", kind |-> "none",
                    node |-> None, extra |-> None, dot_access |-> None,
                    path_ctx |-> None],
     pattern_ctx |-> None,
     existing_derives |-> FALSE]

\* the tokens the right-biased lookup can find at the offset of the file with
\* the marker inserted: the marker text lies inside one token
FakeIdentTokens(tree, off) ==
    {Token(tree, s, e) : s \in 0..off, e \in (off + MarkerLen)..tree.len}

New ==
    /\ pc = "new"
    /\ LET orig == Tree("orig", 0, position.len)
           fake == Tree("spec", 0, position.len + MarkerLen)
       IN  \E tok \in FakeIdentTokens(fake, position.offset), scope_ok \in BOOLEAN :
             /\ ev' = [NoEv EXCEPT !.step = "new",
                                   !.spec_ok = ~TokenAtOffsetIsNone(fake),
                                   !.orig_ok = ~TokenAtOffsetIsNone(orig)]
             /\ IF TokenAtOffsetIsNone(fake) \/ TokenAtOffsetIsNone(orig) \/ ~scope_ok
                THEN /\ pc' = "done"
                     /\ returned' = ReturnNone
                     /\ UNCHANGED <<walker, ctx>>
                ELSE /\ pc' = "loop"
                     /\ original_file' = orig
                     /\ speculative_file' = fake
                     /\ offset' = position.offset
                     /\ fake_ident_token' = tok
                     /\ ctx' = Some(InitialCtx)
                     /\ UNCHANGED returned
    /\ UNCHANGED <<query, position, derive_ctx, ancestors_left, fill_calls, fill_args, cancelled>>

\* --------------------------------------- CompletionContext::expand_and_fill
\* the answers the semantic model can give for an expansion of the original
\* tree: none, or a tree one expansion deeper
ActualExpansions(via) ==
    IF original_file.gen >= MaxDepth /\ via # "derive" THEN {None}
    ELSE {None} \cup {Some(Tree("orig", original_file.gen + 1, l)) : l \in 0..MaxLen}

\* the placeholder token handed back as it was, not mapped into the expansion
FakeExpansionUnmappedToken(start) ==
    LET end == start + (fake_ident_token.end - fake_ident_token.start)
        tree == Tree("spec", speculative_file.gen + 1, end)
    IN  [tree |-> tree, token |-> fake_ident_token]

\* the answers for a speculative expansion: none, or a tree one expansion
\* deeper together with the placeholder token mapped into it (the token keeps
\* its text, so its length)
FakeExpansion(start) ==
    LET end == start + (fake_ident_token.end - fake_ident_token.start)
        tree == Tree("spec", speculative_file.gen + 1, end)
    IN  [tree |-> tree, token |-> Token(tree, start, end)]

FakeExpansions(via) ==
    IF original_file.gen >= MaxDepth /\ via # "derive" THEN {None}
    ELSE {None} \cup {Some(FakeExpansion(s)) : s \in 0..(MaxLen + 1)}

\* the bounds check left out
OutOfBoundsUnchecked(new_offset, actual_expansion) == FALSE

\* new_offset > actual_expansion.text_range().end()
OutOfBounds(new_offset, actual_expansion) == new_offset > TextEnd(actual_expansion)

\* a one-sided attribute expansion taken for "nothing to expand here"
AttrMatchLenient(actual, fake) ==
    IF IsSome(actual) /\ IsSome(fake)
    THEN IF OutOfBounds(Unwrap(fake).token.start, Unwrap(actual)) THEN "break"
         ELSE "adopt"
    ELSE "continue"

\* the match on the pair of attribute expansions
AttrMatch(actual, fake) ==
    IF ~IsSome(actual) /\ ~IsSome(fake) THEN "continue"
    ELSE IF IsSome(actual) /\ IsSome(fake)
         THEN IF OutOfBounds(Unwrap(fake).token.start, Unwrap(actual)) THEN "break"
              ELSE "adopt"
         ELSE "break"

\* the match on the pair of function-like macro expansions
MacroMatch(actual, fake) ==
    IF IsSome(actual) /\ IsSome(fake)
    THEN IF OutOfBounds(Unwrap(fake).token.start, Unwrap(actual)) THEN "break"
         ELSE "adopt"
    ELSE "break"

\* the comparison of the macro paths left out
PathsNeverDiffer(path0, path1) == FALSE

\* mac_call_path0 != mac_call_path1
PathsDiffer(path0, path1) == path0 # path1

\* the loop continued without taking over the expansion
AdoptNothing(actual_expansion, fake_expansion, fake_mapped_token) ==
    UNCHANGED walker

\* the four assignments of a successful expansion
Adopt(actual_expansion, fake_expansion, fake_mapped_token) ==
    /\ original_file' = actual_expansion
    /\ speculative_file' = fake_expansion
    /\ fake_ident_token' = fake_mapped_token
    /\ offset' = fake_mapped_token.start

\* `break 'expansion` taken for `continue 'expansion`
BreakExpansionContinues == "loop"

\* where `break 'expansion` leads: the call of fill after the loop
BreakExpansion == "call_fill"

ExpEv(step, actual, fake) ==
    [NoEv EXCEPT !.step = step,
                 !.orig_ok = IsSome(actual),
                 !.spec_ok = IsSome(fake),
                 !.new_offset = IF IsSome(fake) THEN Unwrap(fake).token.start ELSE 0,
                 !.orig_end = IF IsSome(actual) THEN TextEnd(Unwrap(actual)) ELSE 0]

\* top of 'expansion: ancestor_items, the zipped chains of enclosing items
LoopTop ==
    /\ pc = "loop"
    /\ \E n \in 0..MaxAncestors :
         /\ ancestors_left' = n
         /\ ev' = [NoEv EXCEPT !.step = "loop", !.pairs = n]
    /\ pc' = "ancestors"
    /\ UNCHANGED <<query, position, walker, derive_ctx, fill_calls, fill_args, ctx,
                   cancelled, returned>>

\* one iteration of 'ancestors
AttrStep ==
    /\ pc = "ancestors"
    /\ ancestors_left > 0
    /\ \E actual \in ActualExpansions("attr"), fake \in FakeExpansions("attr") :
         /\ ev' = ExpEv("attr", actual, fake)
         /\ CASE AttrMatch(actual, fake) = "continue" ->
                   /\ ancestors_left' = ancestors_left - 1
                   /\ pc' = "ancestors"
                   /\ UNCHANGED walker
              [] AttrMatch(actual, fake) = "adopt" ->
                   /\ Adopt(Unwrap(actual), Unwrap(fake).tree, Unwrap(fake).token)
                   /\ ancestors_left' = 0
                   /\ pc' = "loop"
              [] OTHER ->
                   /\ pc' = BreakExpansion
                   /\ UNCHANGED <<walker, ancestors_left>>
    /\ UNCHANGED <<query, position, derive_ctx, fill_calls, fill_args, ctx, cancelled,
                   returned>>

\* the token trees looked for while pairs are left
AncestorsExhaustedAlways == TRUE

\* 'ancestors has run through every pair of ancestor_items
AncestorsExhausted == ancestors_left = 0

\* 'ancestors ran out of pairs: look for the token trees at the offset and
\* for the attributes they may be the arguments of
TokenTreeStep ==
    /\ pc = "ancestors"
    /\ AncestorsExhausted
    /\ \E orig_tt \in BOOLEAN, spec_tt \in BOOLEAN,
          orig_attr \in BOOLEAN, spec_attr \in BOOLEAN :
         /\ ev' = [NoEv EXCEPT !.step = "tt", !.orig_ok = orig_tt,
                               !.spec_ok = spec_tt,
                               !.has_args = orig_attr /\ spec_attr]
         /\ pc' = IF ~orig_tt \/ ~spec_tt THEN BreakExpansion
                  ELSE IF orig_attr /\ spec_attr THEN "derive"
                  ELSE "macro"
    /\ UNCHANGED <<query, position, walker, derive_ctx, ancestors_left, fill_calls,
                   fill_args, ctx, cancelled, returned>>

\* the pseudo-derive expansion
DeriveStep ==
    /\ pc = "derive"
    /\ \E actual \in ActualExpansions("derive"), fake \in FakeExpansions("derive") :
         /\ ev' = ExpEv("derive", actual, fake)
         /\ derive_ctx' =
              IF IsSome(actual) /\ IsSome(fake)
              THEN Some([actual |-> Unwrap(actual), fake |-> Unwrap(fake).tree,
                         offset |-> Unwrap(fake).token.start,
                         attr |-> Node(original_file, "ATTR")])
              ELSE derive_ctx
    /\ pc' = BreakExpansion
    /\ UNCHANGED <<query, position, walker, ancestors_left, fill_calls, fill_args, ctx,
                   cancelled, returned>>

\* the function-like macro expansion
MacroStep ==
    /\ pc = "macro"
    /\ \E orig_call \in BOOLEAN, spec_call \in BOOLEAN,
          path0 \in {Some("foo"), Some("bar")},
          path1 \in {Some("foo"), Some("bar")}, args \in BOOLEAN,
          actual \in ActualExpansions("macro"), fake \in FakeExpansions("macro") :
         IF ~(orig_call /\ spec_call)
         THEN /\ ev' = [NoEv EXCEPT !.step = "nomacro"]
              /\ pc' = BreakExpansion
              /\ UNCHANGED walker
         ELSE IF PathsDiffer(path0, path1)
         THEN /\ ev' = [NoEv EXCEPT !.step = "macro", !.path0 = path0,
                                   !.path1 = path1]
              /\ pc' = BreakExpansion
              /\ UNCHANGED walker
         ELSE IF ~args
         THEN /\ ev' = [NoEv EXCEPT !.step = "macro", !.path0 = path0,
                                   !.path1 = path1]
              /\ pc' = BreakExpansion
              /\ UNCHANGED walker
         ELSE /\ ev' = [ExpEv("macro", actual, fake) EXCEPT
                           !.path0 = path0, !.path1 = path1, !.has_args = TRUE]
              /\ IF MacroMatch(actual, fake) = "adopt"
                 THEN /\ Adopt(Unwrap(actual), Unwrap(fake).tree, Unwrap(fake).token)
                      /\ pc' = "loop"
                 ELSE /\ pc' = BreakExpansion
                      /\ UNCHANGED walker
    /\ UNCHANGED <<query, position, derive_ctx, ancestors_left, fill_calls, fill_args,
                   ctx, cancelled, returned>>

\* ------------------------------------------------- CompletionContext::fill
\* pattern_context_for: what the syntax around a pattern can look like
PatAncestors == {"LET_STMT", "PARAM", "MATCH_ARM", "LET_EXPR", "FOR_EXPR", "OTHER", "NONE"}

PatFact(anc, has_ty, param_list, owner, parent_pat, ident_pat, ref_token, mut_token) ==
    [anc |-> anc, has_ty |-> has_ty, param_list |-> param_list, owner |-> owner,
     parent_pat |-> parent_pat, ident_pat |-> ident_pat,
     ref_token |-> ref_token, mut_token |-> mut_token]

\* (ancestor, type present, parameter list, owner of the list): the type
\* matters for a let statement and a parameter, the list for a parameter,
\* its owner when the list is found in the original file
PatAncestorFacts ==
    {<<a, FALSE, "none", "OTHER">> : a \in PatAncestors \ {"PARAM"}}
    \cup {<<"LET_STMT", TRUE, "none", "OTHER">>}
    \cup {<<"PARAM", t, l, "OTHER">> : t \in BOOLEAN, l \in {"none", "lost", "found"}}
    \cup {<<"PARAM", t, "found", o>> : t \in BOOLEAN, o \in {"CLOSURE_EXPR", "FN"}}

\* a path pattern has no ref or mut token of its own
PathPatFacts ==
    {PatFact(a[1], a[2], a[3], a[4], p, FALSE, FALSE, FALSE) :
        a \in PatAncestorFacts, p \in BOOLEAN}

\* the ancestor and the tokens of the pattern are read independently of
\* each other: each varies with the other fixed
IdentPatFacts ==
    {PatFact(a[1], a[2], a[3], a[4], FALSE, TRUE, FALSE, FALSE) :
        a \in PatAncestorFacts}
    \cup {PatFact("LET_STMT", FALSE, "none", "OTHER", p[1], TRUE, p[2], p[3]) :
            p \in BOOLEAN \X BOOLEAN \X BOOLEAN}

NoPatFacts == {PatFact("NONE", FALSE, "none", "OTHER", FALSE, FALSE, FALSE, FALSE)}

pattern_context_for(original, fake, f) ==
    [refutability |-> IF f.anc \in {"MATCH_ARM", "LET_EXPR"} THEN "Refutable"
                      ELSE "Irrefutable",
     param_ctx |-> IF f.anc = "PARAM" /\ f.param_list = "found"
                      /\ f.owner \in {"CLOSURE_EXPR", "FN"}
                   THEN Some([param_list |-> Node(original, "PARAM_LIST"),
                              param |-> Node(fake, "PARAM"),
                              kind |-> IF f.owner = "FN" THEN "Function" ELSE "Closure"])
                   ELSE None,
     has_type_ascription |-> f.anc \in {"LET_STMT", "PARAM"} /\ f.has_ty,
     parent_pat |-> IF f.parent_pat THEN Some(Node(fake, "PAT")) ELSE None,
     mut_token |-> IF f.ident_pat /\ f.mut_token THEN Some(Node(fake, "MUT_KW")) ELSE None,
     ref_token |-> IF f.ident_pat /\ f.ref_token THEN Some(Node(fake, "REF_KW")) ELSE None]

\* classify_lifetime, by the kind of the parent of the lifetime
classify_lifetime(original, fake, parent, found, is_decl) ==
    IF parent = "ERROR" THEN None
    ELSE Some([variant |-> "Lifetime",
               lifetime |-> IF found THEN Some(Node(original, "LIFETIME")) ELSE None,
               kind |-> CASE parent = "LIFETIME_PARAM" -> "LifetimeParam"
                          [] parent \in {"BREAK_EXPR", "CONTINUE_EXPR"} -> "LabelRef"
                          [] parent = "LABEL" -> "LabelDef"
                          [] OTHER -> "Lifetime",
               is_decl |-> parent = "LIFETIME_PARAM" /\ is_decl,
               param |-> IF parent = "LIFETIME_PARAM"
                         THEN Some(Node(fake, "LIFETIME_PARAM")) ELSE None])

\* classify_name
NameKindOf ==
    ("CONST" :> "Const")
    @@ ("CONST_PARAM" :> "ConstParam")
    @@ ("ENUM" :> "Enum")
    @@ ("FN" :> "Function")
    @@ ("IDENT_PAT" :> "IdentPat")
    @@ ("MACRO_DEF" :> "MacroDef")
    @@ ("MACRO_RULES" :> "MacroRules")
    @@ ("MODULE" :> "Module")
    @@ ("RECORD_FIELD" :> "RecordField")
    @@ ("RENAME" :> "Rename")
    @@ ("SELF_PARAM" :> "SelfParam")
    @@ ("STATIC" :> "Static")
    @@ ("STRUCT" :> "Struct")
    @@ ("TRAIT" :> "Trait")
    @@ ("TYPE_ALIAS" :> "TypeAlias")
    @@ ("TYPE_PARAM" :> "TypeParam")
    @@ ("UNION" :> "Union")
    @@ ("VARIANT" :> "Variant")

NameParents == DOMAIN NameKindOf \cup {"OTHER"}

\* the name taken from the file with the fake ident
classify_name_fake(original, fake, parent, found, in_field_pat, pf) ==
    IF parent \notin DOMAIN NameKindOf THEN None
    ELSE Some([name_ctx |->
                 [variant |-> "Name",
                  name |-> IF found THEN Some(Node(fake, "NAME")) ELSE None,
                  kind |-> NameKindOf[parent],
                  module |-> IF parent = "MODULE" THEN Some(Node(fake, "MODULE"))
                             ELSE None],
               pat_ctx |->
                 IF parent = "IDENT_PAT" /\ ~in_field_pat
                 THEN Some(pattern_context_for(original, fake, pf))
                 ELSE None])

\* the pair (NameContext, Option<PatternContext>), or None
classify_name(original, fake, parent, found, in_field_pat, pf) ==
    IF parent \notin DOMAIN NameKindOf THEN None
    ELSE Some([name_ctx |->
                 [variant |-> "Name",
                  name |-> IF found THEN Some(Node(original, "NAME")) ELSE None,
                  kind |-> NameKindOf[parent],
                  module |-> IF parent = "MODULE" THEN Some(Node(fake, "MODULE"))
                             ELSE None],
               pat_ctx |->
                 IF parent = "IDENT_PAT" /\ ~in_field_pat
                 THEN Some(pattern_context_for(original, fake, pf))
                 ELSE None])

\* classify_name_ref
\* the first ancestor of the path that decides the slot: none, or the arm of
\* match_ast! it falls into ("Type", "Expr", "Pat", "Attr", "Vis", "Use" for
\* the arm that yields this PathKind, "Item" for the four arms of item lists
\* and of the source file, "MacroCall" for the arm of a macro call)
\* above a decider: for "Item" the list itself with the node that owns it,
\* for "MacroCall" the parent of the macro call with the parent of that
ItemLists ==
    {<<"ITEM_LIST", "MODULE">>, <<"ASSOC_ITEM_LIST", "TRAIT">>,
     <<"ASSOC_ITEM_LIST", "IMPL">>, <<"ASSOC_ITEM_LIST", "OTHER">>,
     <<"EXTERN_ITEM_LIST", "EXTERN_BLOCK">>, <<"SOURCE_FILE", "NONE">>}

MacroCallParents ==
    ItemLists \cup {<<"MACRO_PAT", "OTHER">>, <<"MACRO_TYPE", "OTHER">>,
                    <<"MACRO_EXPR", "OTHER">>, <<"OTHER", "OTHER">>}

\* a Meta that has no attribute above it, and one whose attribute has no
\* parent
AmbiguousMetas == {<<"NO_ATTR", "NONE">>, <<"ATTR", "NO_PARENT">>}

\* an associated item list owned by neither a trait nor an impl makes the
\* closure return None, so it decides nothing: the search goes on above it
Deciders ==
    {[slot |-> s, node |-> "NONE", owner |-> "NONE"] :
        s \in {"Type", "Expr", "Pat", "Attr", "Vis", "Use"}}
    \cup {[slot |-> "Attr", node |-> l[1], owner |-> l[2]] : l \in AmbiguousMetas}
    \cup {[slot |-> "Item", node |-> l[1], owner |-> l[2]] :
            l \in ItemLists \ {<<"ASSOC_ITEM_LIST", "OTHER">>}}
    \cup {[slot |-> "MacroCall", node |-> l[1], owner |-> l[2]] :
            l \in MacroCallParents}

\* ItemListKind of an item list, by the list and, for an associated item
\* list, the node that owns it; None where the closure returns without a kind
ItemListKindOf(list, owner) ==
    IF list = "ITEM_LIST" THEN Some("Module")
    ELSE IF list = "ASSOC_ITEM_LIST"
    THEN IF owner = "TRAIT" THEN Some("Trait")
         ELSE IF owner = "IMPL" THEN Some("Impl")
         ELSE None
    ELSE IF list = "EXTERN_ITEM_LIST" THEN Some("ExternBlock")
    ELSE IF list = "SOURCE_FILE" THEN Some("SourceFile")
    ELSE None

PathKindOf(k, item_kind) == [kind |-> k, item_kind |-> item_kind]

\* the MacroCall arm with every macro call taken for an expression
MacroCallKindExpr(node, owner) == Some(PathKindOf("Expr", None))

\* the MacroCall arm: the PathKind by the parent of the macro call
MacroCallKind(node, owner) ==
    IF node = "MACRO_PAT" THEN Some(PathKindOf("Pat", None))
    ELSE IF node = "MACRO_TYPE" THEN Some(PathKindOf("Type", None))
    ELSE IF node \in {"ITEM_LIST", "ASSOC_ITEM_LIST", "EXTERN_ITEM_LIST",
                      "SOURCE_FILE"}
    THEN IF IsSome(ItemListKindOf(node, owner))
         THEN Some(PathKindOf("Item", ItemListKindOf(node, owner)))
         ELSE None
    ELSE IF node = "MACRO_EXPR" THEN Some(PathKindOf("Expr", None))
    ELSE None

\* the Meta arm: None when meta.parent_attr() or the parent of the
\* attribute is missing
AttrKind(node, owner) ==
    IF node = "NO_ATTR" \/ owner = "NO_PARENT" THEN None
    ELSE Some(PathKindOf("Attr", None))

\* the value of path.syntax().ancestors().find_map(..).flatten(): the
\* PathKind, or None
PathKindAt(d) ==
    IF d.slot = "none" THEN None
    ELSE IF d.slot = "MacroCall" THEN MacroCallKind(d.node, d.owner)
    ELSE IF d.slot = "Attr" THEN AttrKind(d.node, d.owner)
    ELSE IF d.slot = "Item"
    THEN IF IsSome(ItemListKindOf(d.node, d.owner))
         THEN Some(PathKindOf("Item", ItemListKindOf(d.node, d.owner)))
         ELSE None
    ELSE Some(PathKindOf(d.slot, None))

\* the text of the token of a literal, character by character: `1`, `1.`,
\* `1.0`, `"s"`
ReceiverExprs ==
    {[literal |-> None]}
    \cup {[literal |-> Some(t)] :
             t \in {<<"1">>, <<"1", ".">>, <<"1", ".", "0">>, <<"\"", "s", "\"">>}}

\* ast::Literal::kind by the token of the literal: digits with a dot are
\* lexed as one float number, with or without digits after the dot
literal_kind(text) ==
    IF text[1] = "\"" THEN "String"
    ELSE IF \E i \in 1..Len(text) : text[i] = "." THEN "FloatNumber"
    ELSE "IntNumber"

\* the receiver of a field access as found in the original file: a literal
\* with its text, or another expression

NoLiteral == [literal |-> None]

\* facts about a name reference; irrelevant ones are fixed
NameRefFact(parent, found, receiver, d, qualifier, parent_path) ==
    [parent |-> parent, found |-> found, receiver |-> receiver, slot |-> d.slot,
     node |-> d.node, owner |-> d.owner,
     qualifier |-> qualifier, parent_path |-> parent_path,
     receiver_expr |-> NoLiteral]

NoDecider == [slot |-> "none", node |-> "NONE", owner |-> "NONE"]

NameRefFacts ==
    {NameRefFact("OTHER", n, FALSE, NoDecider, "none", FALSE) : n \in BOOLEAN}
    \cup {NameRefFact(p, n, r, NoDecider, "none", FALSE) :
            p \in {"FIELD_EXPR", "METHOD_CALL_EXPR"}, n \in BOOLEAN, r \in BOOLEAN}
    \cup {[NameRefFact("FIELD_EXPR", TRUE, TRUE, NoDecider, "none", FALSE)
             EXCEPT !.receiver_expr = [literal |-> Some(<<"1", ".">>)]]}
    \cup {NameRefFact("PATH_SEGMENT", n, FALSE, d, "none", FALSE) :
            n \in BOOLEAN,
            d \in {NoDecider} \cup {x \in Deciders : ~IsSome(PathKindAt(x))}}
    \cup {NameRefFact("PATH_SEGMENT", n, FALSE, d, q, pp) :
            n \in BOOLEAN, d \in {x \in Deciders : x.node = "NONE"},
            q \in {"none", "lost", "found"}, pp \in BOOLEAN}
    \cup {NameRefFact("PATH_SEGMENT", n, FALSE, d, "none", FALSE) :
            n \in BOOLEAN,
            d \in {x \in Deciders : x.node # "NONE" /\ IsSome(PathKindAt(x))}}

\* every float number taken for an ambiguous one
receiver_is_ambiguous_float_literal_any_float(found, expr) ==
    /\ found
    /\ IsSome(expr.literal)
    /\ literal_kind(Unwrap(expr.literal)) = "FloatNumber"

\* Some(ast::Expr::Literal(l)): l.kind() is a FloatNumber and the text of
\* the last token ends with '.'; any other receiver, or none: false
receiver_is_ambiguous_float_literal(found, expr) ==
    IF found /\ IsSome(expr.literal)
    THEN LET text == Unwrap(expr.literal)
         IN  literal_kind(text) = "FloatNumber" /\ text[Len(text)] = "."
    ELSE FALSE

\* the pair (NameRefContext, Option<PatternContext>)
classify_name_ref(original, fake, f, pf) ==
    LET nameref == IF f.found THEN Some(Node(original, "NAME_REF")) ELSE None
        base == [variant |-> "NameRef", nameref |-> nameref,
                 dot_access |-> None, path_ctx |-> None]
        receiver == IF f.receiver THEN Some(Node(original, "EXPR")) ELSE None
    IN  CASE f.parent = "FIELD_EXPR" ->
               [nameref_ctx |-> [base EXCEPT !.dot_access =
                                   Some([kind |-> "Field", receiver |-> receiver,
                                         receiver_is_ambiguous_float_literal |->
                                           receiver_is_ambiguous_float_literal(
                                               f.receiver, f.receiver_expr)])],
                pat_ctx |-> None]
          [] f.parent = "METHOD_CALL_EXPR" ->
               [nameref_ctx |-> [base EXCEPT !.dot_access =
                                   Some([kind |-> "Method", receiver |-> receiver])],
                pat_ctx |-> None]
          [] f.parent = "PATH_SEGMENT" ->
               LET pat_ctx == IF f.slot = "Pat"
                              THEN Some(pattern_context_for(original, fake, pf))
                              ELSE None
                   path_kind == PathKindAt(f)
               IN  IF ~IsSome(path_kind)
                   THEN [nameref_ctx |-> base, pat_ctx |-> pat_ctx]
                   ELSE [nameref_ctx |->
                           [base EXCEPT !.path_ctx =
                              Some([kind |-> Unwrap(path_kind).kind,
                                    item_kind |-> Unwrap(path_kind).item_kind,
                                    qualifier |->
                                      IF f.qualifier = "found"
                                      THEN Some([path |-> Node(original, "PATH")])
                                      ELSE None,
                                    parent |-> IF f.parent_path
                                               THEN Some(Node(fake, "PATH")) ELSE None])],
                         pat_ctx |-> pat_ctx]
          [] OTHER -> [nameref_ctx |-> base, pat_ctx |-> None]

\* the pattern facts a name reference can depend on; they vary for a path
\* without qualifier and parent, which are read independently of them
PatFactsFor(f) == IF f.parent = "PATH_SEGMENT" /\ f.slot = "Pat"
                     /\ f.qualifier = "none" /\ ~f.parent_path
                  THEN PathPatFacts
                  ELSE NoPatFacts

\* the fallback of fill when no name-like node is at the offset
NoNameLikeFact(original_is_string, expanded_is_string, tt_in_meta, fake_attr) ==
    [original_is_string |-> original_is_string,
     expanded_is_string |-> expanded_is_string,
     tt_in_meta |-> tt_in_meta, fake_attr |-> fake_attr]

NoNameLikeFacts ==
    {NoNameLikeFact(TRUE, e, FALSE, FALSE) : e \in BOOLEAN}
    \cup {NoNameLikeFact(FALSE, FALSE, TRUE, a) : a \in BOOLEAN}
    \cup {NoNameLikeFact(FALSE, FALSE, FALSE, FALSE)}

\* self.original_token and self.token: tokens of the original file and of its
\* macro expansion
FillNoNameLike(fake, f) ==
    IF f.original_is_string
    THEN Some([variant |-> "String", original |-> Node(Tree("orig", 0, position.len), "TOKEN"),
               expanded |-> IF f.expanded_is_string
                            THEN Some(Node(original_file, "TOKEN"))
                            ELSE None])
    ELSE IF f.tt_in_meta
    THEN Some([variant |-> "UnexpandedAttrTT",
               fake_attribute_under_caret |->
                  IF f.fake_attr THEN Some(Node(fake, "ATTR")) ELSE None])
    ELSE None

\* a pattern context stored with every identifier context
FillSomePatternAlways(ident_ctx, pat_ctx, derives) ==
    Some([ident_ctx |-> ident_ctx,
          pattern_ctx |->
            IF IsSome(pat_ctx) THEN pat_ctx
            ELSE Some(pattern_context_for(
                          original_file, speculative_file,
                          PatFact("NONE", FALSE, "none", "OTHER", FALSE, FALSE,
                                  FALSE, FALSE))),
          existing_derives |-> derives])

\* the return of fill: Some(()) with the context filled, or None
FillSome(ident_ctx, pat_ctx, derives) ==
    Some([ident_ctx |-> ident_ctx, pattern_ctx |-> pat_ctx,
          existing_derives |-> derives])

\* the derive branch with the path kind left as classify_name_ref set it
FillDeriveKeepsKind(d, name_ref_found, f, pf) ==
    IF name_ref_found
    THEN FillSome(classify_name_ref(d.actual, d.fake, f, pf).nameref_ctx,
                  Unwrap(ctx).pattern_ctx, TRUE)
    ELSE None

\* the derive branch of fill
FillDerive(d, name_ref_found, f, pf) ==
    IF name_ref_found
    THEN LET r == classify_name_ref(d.actual, d.fake, f, pf)
             n == r.nameref_ctx
         IN  FillSome(IF IsSome(n.path_ctx)
                      THEN [n EXCEPT !.path_ctx =
                              Some([Unwrap(n.path_ctx) EXCEPT !.kind = "Derive"])]
                      ELSE n,
                      Unwrap(ctx).pattern_ctx, TRUE)
    ELSE None

\* the result of fill dropped
ExpandAndFillResultDropped(filled) == ReturnNone

\* the result of expand_and_fill, so of new, from the result of fill
ExpandAndFillResult(filled) ==
    IF IsSome(filled) THEN [tag |-> "Some", ctx |-> filled] ELSE ReturnNone

\* decider: what classify_name_ref found above the path, if it was asked;
\* name_like: what find_node_at_offset found, if it was asked
FillReturnAt(filled, in_for_loop, decider, name_like) ==
    /\ ev' = [NoEv EXCEPT !.step = "fill", !.in_for_loop = in_for_loop,
                          !.filled = IsSome(filled), !.decider = decider,
                          !.macro_failed = ev.macro_failed,
                          !.name_like = name_like]
    /\ ctx' = IF IsSome(filled) THEN filled ELSE ctx
    /\ returned' = ExpandAndFillResult(filled)

FillReturn(filled, in_for_loop, name_like) ==
    FillReturnAt(filled, in_for_loop, None, name_like)

\* the walk ended in the function-like macro step, which asked for both
\* expansions and did not get both
MacroExpansionFailed ==
    /\ ev.step = "macro"
    /\ ev.has_args
    /\ ~(ev.orig_ok /\ ev.spec_ok)

\* the last line of expand_and_fill: self.fill(&original_file,
\* speculative_file, offset, derive_ctx)
CallFill ==
    /\ pc = "call_fill"
    /\ fill_calls' = fill_calls + 1
    /\ fill_args' = Some([original_file |-> original_file,
                          file_with_fake_ident |-> speculative_file,
                          offset |-> offset, derive_ctx |-> derive_ctx])
    /\ ev' = [NoEv EXCEPT !.step = "call_fill",
                          !.macro_failed = MacroExpansionFailed]
    /\ ancestors_left' = 0
    /\ pc' = "fill"
    /\ UNCHANGED <<query, position, walker, derive_ctx, ctx, cancelled, returned>>

Fill ==
    /\ pc = "fill"
    /\ pc' = "done"
    /\ IF TokenAtOffsetIsNone(speculative_file) \/ offset > TextEnd(speculative_file)
       THEN \* the unwrap of the token lookup panics
            /\ ev' = [NoEv EXCEPT !.step = "panic",
                                  !.macro_failed = ev.macro_failed]
            /\ returned' = Unwound
            /\ UNCHANGED ctx
       ELSE \E in_for_loop \in BOOLEAN :
            IF in_for_loop
            THEN FillReturn(None, TRUE, "unasked")
            ELSE IF IsSome(derive_ctx)
            THEN \E found \in BOOLEAN, f \in NameRefFacts :
                   \E pf \in PatFactsFor(f) :
                     /\ (~found => f.parent = "OTHER" /\ ~f.found)
                     /\ FillReturn(FillDerive(Unwrap(derive_ctx), found, f, pf), FALSE,
                                   IF found THEN "NameRef" ELSE "none")
            ELSE \E name_like \in {"none", "Lifetime", "NameRef", "Name"} :
                   CASE name_like = "none" ->
                          \E f \in NoNameLikeFacts :
                            LET i == FillNoNameLike(speculative_file, f)
                            IN  FillReturn(IF IsSome(i)
                                           THEN FillSome(Unwrap(i), None, FALSE)
                                           ELSE None, FALSE, "none")
                     [] name_like = "Lifetime" ->
                          \E parent \in {"ERROR", "LIFETIME_PARAM", "BREAK_EXPR",
                                         "CONTINUE_EXPR", "LABEL", "OTHER"},
                             found \in BOOLEAN,
                             is_decl \in BOOLEAN :
                            LET l == classify_lifetime(original_file, speculative_file,
                                                       parent, found, is_decl)
                            IN  FillReturn(IF IsSome(l)
                                           THEN FillSome(Unwrap(l), None, FALSE)
                                           ELSE None, FALSE, "Lifetime")
                     [] name_like = "NameRef" ->
                          \E f \in NameRefFacts :
                            \E pf \in PatFactsFor(f) :
                              LET r == classify_name_ref(original_file,
                                                         speculative_file, f, pf)
                              IN  FillReturnAt(
                                      FillSome(r.nameref_ctx, r.pat_ctx, FALSE), FALSE,
                                      IF f.parent = "PATH_SEGMENT"
                                      THEN Some([slot |-> f.slot, node |-> f.node,
                                                 owner |-> f.owner])
                                      ELSE None, "NameRef")
                     [] OTHER ->
                          \E parent \in NameParents, found \in BOOLEAN,
                             in_field_pat \in BOOLEAN :
                            \E pf \in (IF parent = "IDENT_PAT" /\ ~in_field_pat
                                       THEN IdentPatFacts ELSE NoPatFacts) :
                              LET n == classify_name(original_file, speculative_file,
                                                     parent, found, in_field_pat, pf)
                              IN  FillReturn(IF IsSome(n)
                                             THEN FillSome(Unwrap(n).name_ctx,
                                                           Unwrap(n).pat_ctx, FALSE)
                                             ELSE None, FALSE, "Name")
    /\ UNCHANGED <<query, position, walker, derive_ctx, ancestors_left, fill_calls,
                   fill_args, cancelled>>

\* ------------------------------------------------------------ cancellation
\* a cancelled expansion query taken for a failed expansion
CancelledAsFailure(at) ==
    IF at \in {"ancestors", "derive", "macro"} THEN BreakExpansion ELSE "unwound"

\* db.unwind_if_cancelled(): a cancelled query unwinds through its callers
UnwindIfCancelled(at) == "unwound"

Cancel ==
    /\ pc \in {"new", "ancestors", "derive", "macro", "fill"}
    /\ (pc = "ancestors" => ancestors_left > 0)
    /\ cancelled' = TRUE
    /\ pc' = UnwindIfCancelled(pc)
    /\ ev' = [NoEv EXCEPT !.step = "cancel", !.macro_failed = ev.macro_failed]
    /\ returned' = IF pc' = "unwound" THEN Unwound ELSE returned
    /\ UNCHANGED <<query, position, walker, derive_ctx, ancestors_left, fill_calls,
                   fill_args, ctx>>

Next ==
    \/ New
    \/ LoopTop
    \/ AttrStep
    \/ TokenTreeStep
    \/ DeriveStep
    \/ MacroStep
    \/ CallFill
    \/ Fill
    \/ Cancel

Spec == Init /\ [][Next]_vars

\* the specification with the scheduling of a single thread that runs new to
\* its end: a step that can be taken is taken
LiveSpec == Spec /\ WF_vars(Next)

\* ------------------------------------- functions called on their own
\* the variables of a request of new, untouched while a function is called on
\* its own
request == <<position, pc, original_file, speculative_file, offset,
             fake_ident_token, derive_ctx, ancestors_left, ev, fill_calls,
             fill_args, ctx, cancelled, returned>>

\* no request of new under way
NoRequest ==
    /\ position = [len |-> 0, offset |-> 0]
    /\ pc = "idle"
    /\ original_file = NoTree
    /\ speculative_file = NoTree
    /\ offset = 0
    /\ fake_ident_token = NoToken
    /\ derive_ctx = None
    /\ ancestors_left = 0
    /\ ev = NoEv
    /\ fill_calls = 0
    /\ fill_args = None
    /\ ctx = None
    /\ cancelled = FALSE
    /\ returned = Pending

\* a function called on its own, with one of the inputs in calls, before it
\* has returned
CallInit(calls) ==
    /\ NoRequest
    /\ call \in calls
    /\ ret = None

\* ------------------------------------------ CompletionContext::is_visible
\* `doc(hidden)` items are only completed within the defining crate
is_doc_hidden(krate, defining_crate, has_doc_hidden) ==
    krate # defining_crate /\ has_doc_hidden

\* is_visible_impl with the private-editable setting ignored
is_visible_impl_always_editable(c) ==
    IF ~c.is_visible_from
    THEN IF ~c.is_library THEN "Editable" ELSE "No"
    ELSE IF is_doc_hidden(c.krate, c.defining_crate, c.has_doc_hidden)
         THEN "No" ELSE "Yes"

\* c: the completion site (krate, enable_private_editable) and what the
\* database answers for the item (is_visible_from the module of the site,
\* has_doc_hidden of its attributes, its defining_crate, is_library of the
\* source root of the root file of that crate)
is_visible_impl(c) ==
    IF ~c.is_visible_from
    THEN IF ~c.enable_private_editable
         THEN "No"
         ELSE IF ~c.is_library THEN "Editable" ELSE "No"
    ELSE IF is_doc_hidden(c.krate, c.defining_crate, c.has_doc_hidden)
         THEN "No" ELSE "Yes"

\* is_visible: visibility, attributes and crate of the item read from the
\* database, then is_visible_impl
is_visible(c) == is_visible_impl(c)

IsVisibleCalls ==
    {[fn |-> "is_visible", krate |-> k, enable_private_editable |-> e,
      is_visible_from |-> v, has_doc_hidden |-> h, defining_crate |-> d,
      is_library |-> l] :
        k \in {"krate_a", "krate_b"}, d \in {"krate_a", "krate_b"}, e \in BOOLEAN, v \in BOOLEAN,
        h \in BOOLEAN, l \in BOOLEAN}

IsVisible ==
    /\ call.fn = "is_visible"
    /\ ret = None
    /\ ret' = Some(is_visible(call))
    /\ UNCHANGED <<call, request>>

IsVisibleSpec == CallInit(IsVisibleCalls) /\ [][IsVisible]_vars

\* ------------------------- CompletionContext::expected_type_and_name
MaxTokens == 4       \* most tokens kept of the text up to the cursor token
MaxOthers == 1       \* most nodes between the cursor token and its container

\* hir::Type: a base type under some layers of references
Ty(refs, base) == [refs |-> refs, base |-> base]
Types == {Ty(0, "u32"), Ty(1, "u32"), Ty(2, "u32")}

\* hir::TypeInfo, the answer of type_of_pat and type_of_expr
TypeInfos ==
    {[original |-> t, adjusted |-> a] :
        t \in {Ty(0, "u32"), Ty(1, "u32")}, a \in {None, Some(Ty(0, "bool"))}}

\* TypeInfo::original
type_info_original(type_info) == type_info.original

Opt(S) == {None} \cup {Some(x) : x \in S}

\* Option<TypeInfo>::map(TypeInfo::original)
map_original(o) == IF IsSome(o) THEN Some(type_info_original(Unwrap(o))) ELSE None

\* Option::or_else
OrElse(o, p) == IF IsSome(o) THEN o ELSE p

\* Type::remove_ref: the type under the outermost reference, None for a type
\* that is not a reference
remove_ref(ty) == IF ty.refs > 0 THEN Some(Ty(ty.refs - 1, ty.base)) ELSE None

\* the kinds of the tokens up to the cursor token, the cursor token last
WordKinds == {"IDENT", "mut"}

\* what the lexer can produce: no two words and no two whitespace tokens
\* side by side
Lexed(toks) ==
    \A i \in 1..(Len(toks) - 1) :
        /\ ~(toks[i] \in WordKinds /\ toks[i + 1] \in WordKinds)
        /\ ~(toks[i] = "WHITESPACE" /\ toks[i + 1] = "WHITESPACE")

TokenSeqs(kinds) ==
    {toks \in UNION {[1..n -> kinds] : n \in 1..MaxTokens} : Lexed(toks)}

\* SyntaxToken::prev_token on the cursor token's text: None at the start
prev_token(toks) == IF Len(toks) > 1 THEN Some(SubSeq(toks, 1, Len(toks) - 1))
                    ELSE None

\* SyntaxToken::kind, of the cursor token
token_kind(toks) == toks[Len(toks)]

\* has_ref: the loop over [IDENT, WHITESPACE, T![mut]], each kind skipped at
\* most once and in this order
RECURSIVE has_ref_from(_, _)
has_ref_from(toks, skips) ==
    IF skips = <<>>
    THEN token_kind(toks) = "&"
    ELSE IF token_kind(toks) = Head(skips)
         THEN IF IsSome(prev_token(toks))
              THEN has_ref_from(Unwrap(prev_token(toks)), Tail(skips))
              ELSE FALSE
         ELSE has_ref_from(toks, Tail(skips))

\* has_ref that skips every token of the three kinds
has_ref_greedy(toks) ==
    LET stops == {i \in 1..Len(toks) :
                     toks[i] \notin {"IDENT", "WHITESPACE", "mut"}}
    IN  /\ stops # {}
        /\ toks[CHOOSE i \in stops : \A j \in stops : j <= i] = "&"

has_ref(toks) == has_ref_from(toks, <<"IDENT", "WHITESPACE", "mut">>)

\* the answers of the syntax tree and of the semantic model for one ancestor
\* of the cursor token, by the kind of the node
LetStmtNodes ==
    {[kind |-> "LET_STMT", pat |-> p, initializer |-> i] :
        p \in {None}
               \cup {Some([kind |-> "IDENT_PAT", name |-> n, type_of_pat |-> t]) :
                        n \in Opt({"x"}), t \in Opt(TypeInfos)}
               \cup {Some([kind |-> "TUPLE_PAT", name |-> None, type_of_pat |-> t]) :
                        t \in Opt(TypeInfos)},
        i \in Opt({[type_of_expr |-> t] : t \in Opt(TypeInfos)})}

LetExprNodes ==
    {[kind |-> "LET_EXPR", pat |-> p, expr |-> e] :
        p \in Opt({[type_of_pat |-> t] : t \in Opt(TypeInfos)}),
        e \in Opt({[type_of_expr |-> t] : t \in Opt(TypeInfos)})}

\* parent: the RecordExpr above the list, with its type
RecordExprFieldListNodes ==
    {[kind |-> "RECORD_EXPR_FIELD_LIST", parent |-> r] :
        r \in Opt({[type_of_expr |-> t] : t \in Opt(TypeInfos)})}

RecordExprFields ==
    {[kind |-> "RECORD_EXPR_FIELD", expr |-> e, resolve_record_field |-> r,
      field_name |-> n] :
        e \in Opt({[type_of_expr |-> t] : t \in Opt(TypeInfos)}),
        r \in Opt(Types), n \in Opt({"a"})}

ScrutineeNodes ==
    {[kind |-> k, expr |-> e] :
        k \in {"MATCH_EXPR", "IF_EXPR"},
        e \in Opt({[type_of_expr |-> t] : t \in Opt(TypeInfos)})}

IdentPatNodes ==
    {[kind |-> "IDENT_PAT", type_of_pat |-> t] : t \in Opt(TypeInfos)}

\* as_callable of the type of the closure, with its return type
ClosureExprNodes ==
    {[kind |-> "CLOSURE_EXPR", type_of_expr |-> t] :
        t \in Opt({[as_callable |-> c] :
                     c \in Opt({[return_type |-> r] : r \in Types})})}

\* nodes without answers: a parameter list, the statements and items that are
\* no let statement and no function, and nodes of no listed kind
ItemKinds == {"FN", "STRUCT"}
OtherKinds == {"NAME_REF", "PATH_EXPR"}
ContainerNodes ==
    LetStmtNodes \cup LetExprNodes \cup RecordExprFieldListNodes
    \cup RecordExprFields \cup ScrutineeNodes \cup IdentPatNodes
    \cup {[kind |-> "FN", to_def |-> d] : d \in Opt({[ret_type |-> t] : t \in Types})}
    \cup ClosureExprNodes
    \cup {[kind |-> k] : k \in {"ARG_LIST", "PARAM_LIST", "EXPR_STMT", "STRUCT"}}

\* pat.and_then(|pat| self.sema.type_of_pat(&pat))
and_then_type_of_pat(pat) == IF IsSome(pat) THEN Unwrap(pat).type_of_pat ELSE None

\* expr.and_then(|it| self.sema.type_of_expr(&it))
and_then_type_of_expr(expr) == IF IsSome(expr) THEN Unwrap(expr).type_of_expr ELSE None

\* the LetStmt arm with the initializer asked before the pattern
expected_type_let_initializer_first(it) ==
    <<map_original(
             OrElse(and_then_type_of_expr(it.initializer),
                    and_then_type_of_pat(it.pat))),
      IF IsSome(it.pat) /\ Unwrap(it.pat).kind = "IDENT_PAT"
      THEN Unwrap(it.pat).name ELSE None>>

\* the LetStmt arm
expected_type_let(it) ==
    <<map_original(
             OrElse(and_then_type_of_pat(it.pat),
                    and_then_type_of_expr(it.initializer))),
      IF IsSome(it.pat) /\ Unwrap(it.pat).kind = "IDENT_PAT"
      THEN Unwrap(it.pat).name ELSE None>>

\* the LetExpr arm
expected_type_if_let(it) ==
    <<map_original(
             OrElse(and_then_type_of_pat(it.pat),
                    and_then_type_of_expr(it.expr))),
      None>>

\* the ArgList arm: c.active_parameter is ActiveParameter::at_token
expected_type_fn_param(c) ==
    IF IsSome(c.active_parameter)
    THEN LET ap == Unwrap(c.active_parameter)
         IN  <<IF has_ref(c.toks) THEN remove_ref(ap.ty) ELSE Some(ap.ty),
               ap.ident>>
    ELSE <<None, None>>

\* the RecordExprFieldList arm: c.prev_sibling is the node before the cursor
\* token cast to a RecordExprField
expected_type_struct_field_list(c, it) ==
    IF token_kind(c.toks) = ".."
       \/ (IsSome(prev_token(c.toks))
             /\ token_kind(Unwrap(prev_token(c.toks))) = "..")
    THEN IF IsSome(it.parent) /\ IsSome(Unwrap(it.parent).type_of_expr)
         THEN <<Some(type_info_original(Unwrap(Unwrap(it.parent).type_of_expr))),
                None>>
         ELSE <<None, None>>
    ELSE IF IsSome(c.prev_sibling)
              /\ IsSome(Unwrap(c.prev_sibling).resolve_record_field)
         THEN <<Unwrap(c.prev_sibling).resolve_record_field,
                Unwrap(c.prev_sibling).field_name>>
         ELSE <<None, None>>

\* the RecordExprField arm with the declared type of the field taken always
expected_type_struct_field_declared(it) ==
    <<it.resolve_record_field, it.field_name>>

\* the RecordExprField arm
expected_type_struct_field(it) ==
    IF IsSome(it.expr)
    THEN <<map_original( Unwrap(it.expr).type_of_expr),
           it.field_name>>
    ELSE <<it.resolve_record_field, it.field_name>>

\* the MatchExpr and IfExpr arms
expected_type_scrutinee(it) ==
    <<map_original(
             and_then_type_of_expr(it.expr)), None>>

\* the IdentPat arm
expected_type_ident_pat(it) == <<map_original( it.type_of_pat), None>>

\* the Fn arm
expected_type_fn_ret(it) ==
    <<IF IsSome(it.to_def) THEN Some(Unwrap(it.to_def).ret_type) ELSE None, None>>

\* the ClosureExpr arm
expected_type_closure(it) ==
    LET callable == IF IsSome(it.type_of_expr)
                    THEN Unwrap(it.type_of_expr).as_callable ELSE None
    IN  IF IsSome(callable) THEN <<Some(Unwrap(callable).return_type), None>>
        ELSE <<None, None>>

\* match_ast! of the loop, the arms in their order: Some(pair) where the loop
\* breaks with the pair, None in the arm that goes on with the parent
match_node(c, node) ==
    IF node.kind = "LET_STMT" THEN Some(expected_type_let(node))
    ELSE IF node.kind = "LET_EXPR" THEN Some(expected_type_if_let(node))
    ELSE IF node.kind = "ARG_LIST" THEN Some(expected_type_fn_param(c))
    ELSE IF node.kind = "RECORD_EXPR_FIELD_LIST"
         THEN Some(expected_type_struct_field_list(c, node))
    ELSE IF node.kind = "RECORD_EXPR_FIELD"
         THEN Some(expected_type_struct_field(node))
    ELSE IF node.kind \in {"MATCH_EXPR", "IF_EXPR"}
         THEN Some(expected_type_scrutinee(node))
    ELSE IF node.kind = "IDENT_PAT" THEN Some(expected_type_ident_pat(node))
    ELSE IF node.kind = "FN" THEN Some(expected_type_fn_ret(node))
    ELSE IF node.kind = "CLOSURE_EXPR" THEN Some(expected_type_closure(node))
    ELSE IF node.kind = "PARAM_LIST" THEN Some(<<None, None>>)
    ELSE IF node.kind \in {"LET_STMT", "EXPR_STMT"} \cup ItemKinds THEN Some(<<None, None>>)
    ELSE IF node.kind \in ItemKinds THEN Some(<<None, None>>)
    ELSE None

\* the cursors the function is called on: the tokens up to self.token, the
\* answers that hang on the token, and the ancestors of the token from its
\* parent outward
Cursor(toks, active_parameter, prev_sibling, chain) ==
    [fn |-> "expected_type_and_name", toks |-> toks,
     active_parameter |-> active_parameter, prev_sibling |-> prev_sibling,
     chain |-> chain, node |-> 0]

\* the nodes between the token and its container
InnerChains == UNION {[1..n -> {[kind |-> "PATH_EXPR"]}] : n \in 0..MaxOthers}

\* what lies above the container
OuterChains ==
    {<<>>,
     <<[kind |-> "FN", to_def |-> Some([ret_type |-> Ty(0, "u32")])]>>}

ActiveParameters ==
    Opt({[ident |-> n, ty |-> t] : n \in Opt({"x"}), t \in Types})

ArgListCursors ==
    {Cursor(toks, ap, None, inner \o <<[kind |-> "ARG_LIST"]>> \o outer) :
        toks \in TokenSeqs({"IDENT", "WHITESPACE", "mut", "&", "..", "("} \ {".."}), ap \in ActiveParameters,
        inner \in InnerChains, outer \in OuterChains}

FewTokenSeqs ==
    {<<"WHITESPACE">>, <<"(", "IDENT">>, <<"..">>, <<"..", "WHITESPACE">>}

RecordExprFieldListCursors ==
    {Cursor(toks, None, prev, inner \o <<it>> \o outer) :
        toks \in FewTokenSeqs, prev \in Opt(RecordExprFields),
        it \in RecordExprFieldListNodes,
        inner \in InnerChains, outer \in OuterChains}

ContainerCursors ==
    {Cursor(toks, None, None, inner \o <<it>> \o outer) :
        toks \in {<<"WHITESPACE">>, <<"(", "IDENT">>}, it \in ContainerNodes,
        inner \in InnerChains, outer \in OuterChains}

\* a token under nodes of no listed kind only, or under no node
RootCursors ==
    {Cursor(<<"IDENT">>, None, None, inner) : inner \in InnerChains}

Cursors ==
    ArgListCursors \cup RecordExprFieldListCursors \cup ContainerCursors
    \cup RootCursors

\* let mut node = match self.token.parent() { .. None => return (None, None) }
TokenParent ==
    /\ call.fn = "expected_type_and_name"
    /\ ret = None
    /\ call.node = 0
    /\ IF call.chain = <<>>
       THEN ret' = Some(<<None, None>>) /\ UNCHANGED call
       ELSE call' = [call EXCEPT !.node = 1] /\ UNCHANGED ret
    /\ UNCHANGED request

\* a turn of the loop that goes on with the parent when the arm of the node
\* yields neither a type nor a name
MatchNodeSkippingEmpty ==
    /\ call.fn = "expected_type_and_name"
    /\ ret = None
    /\ call.node > 0
    /\ LET arm == match_node(call, call.chain[call.node])
       IN  IF IsSome(arm) /\ Unwrap(arm) # <<None, None>>
           THEN ret' = Some(Unwrap(arm)) /\ UNCHANGED call
           ELSE IF call.node < Len(call.chain)
           THEN call' = [call EXCEPT !.node = @ + 1] /\ UNCHANGED ret
           ELSE ret' = Some(<<None, None>>) /\ UNCHANGED call
    /\ UNCHANGED request

\* one turn of the loop
MatchNode ==
    /\ call.fn = "expected_type_and_name"
    /\ ret = None
    /\ call.node > 0
    /\ LET arm == match_node(call, call.chain[call.node])
       IN  IF IsSome(arm)
           THEN ret' = Some(Unwrap(arm)) /\ UNCHANGED call
           ELSE IF call.node < Len(call.chain)
           THEN call' = [call EXCEPT !.node = @ + 1] /\ UNCHANGED ret
           ELSE ret' = Some(<<None, None>>) /\ UNCHANGED call
    /\ UNCHANGED request

ExpectedNext ==
    \/ TokenParent
    \/ MatchNode

ExpectedSpec == CallInit(Cursors) /\ [][ExpectedNext]_vars

\* the function runs on one thread with nothing to wait for: a turn of the
\* loop that can be taken is taken
ExpectedLiveSpec == ExpectedSpec /\ WF_vars(ExpectedNext)

\* ------------------------------------- completions::field::complete_field_list
\* Completions::add_keyword_snippet: one keyword item with the label kw added
\* at the end
add_keyword_snippet(acc, kw, snippet) == Append(acc, kw)

\* PathCompletionCtx as complete_field_list reads it
FieldPathKinds ==
    {[variant |-> "Type", in_tuple_struct |-> b] : b \in BOOLEAN}
    \cup {[variant |-> "Expr", in_tuple_struct |-> FALSE],
          [variant |-> "Vis", in_tuple_struct |-> FALSE]}

FieldPathCtxs ==
    {[has_macro_bang |-> mb, is_absolute_path |-> ab, qualifier |-> q,
      parent |-> p, kind |-> k, has_type_args |-> ta] :
        mb \in BOOLEAN, ab \in BOOLEAN, q \in Opt({"PathQualifierCtx"}),
        p \in Opt({"Path"}), k \in FieldPathKinds, ta \in BOOLEAN}

\* IdentContext as complete_field_list reads it
FieldIdentCtxs ==
    {[variant |-> "Name", kind |-> k, path_ctx |-> None] :
        k \in {"RecordField", "Struct", "Function"}}
    \cup {[variant |-> "NameRef", kind |-> "none", path_ctx |-> p] :
            p \in Opt(FieldPathCtxs)}
    \cup {[variant |-> v, kind |-> "none", path_ctx |-> None] :
            v \in {"Lifetime", "String", "UnexpandedAttrTT"}}

\* complete_field_list with the visibility node not looked at
complete_field_list_any_vis(acc, c) ==
    LET p == c.ident_ctx.path_ctx
    IN  IF \/ (c.ident_ctx.variant = "Name" /\ c.ident_ctx.kind = "RecordField")
           \/ /\ c.ident_ctx.variant = "NameRef"
              /\ IsSome(p)
              /\ ~Unwrap(p).has_macro_bang
              /\ ~Unwrap(p).is_absolute_path
              /\ Unwrap(p).qualifier = None
              /\ Unwrap(p).parent = None
              /\ Unwrap(p).kind = [variant |-> "Type", in_tuple_struct |-> TRUE]
              /\ ~Unwrap(p).has_type_args
        THEN add_keyword_snippet(
                 add_keyword_snippet(
                     add_keyword_snippet(acc, "pub(crate)", "pub(crate)"),
                     "pub(super)", "pub(super)"),
                 "pub", "pub")
        ELSE acc

\* c: ident_ctx and qualifier_ctx.vis_node of the context; the value is acc
\* after the call
complete_field_list(acc, c) ==
    LET p == c.ident_ctx.path_ctx
    IN  IF \/ (c.ident_ctx.variant = "Name" /\ c.ident_ctx.kind = "RecordField")
           \/ /\ c.ident_ctx.variant = "NameRef"
              /\ IsSome(p)
              /\ ~Unwrap(p).has_macro_bang
              /\ ~Unwrap(p).is_absolute_path
              /\ Unwrap(p).qualifier = None
              /\ Unwrap(p).parent = None
              /\ Unwrap(p).kind = [variant |-> "Type", in_tuple_struct |-> TRUE]
              /\ ~Unwrap(p).has_type_args
        THEN IF c.vis_node = None
             THEN add_keyword_snippet(
                      add_keyword_snippet(
                          add_keyword_snippet(acc, "pub(crate)", "pub(crate)"),
                          "pub(super)", "pub(super)"),
                      "pub", "pub")
             ELSE acc
        ELSE acc

FieldListCalls ==
    {[fn |-> "complete_field_list", acc |-> a, ident_ctx |-> i, vis_node |-> v] :
        a \in {<<>>, <<"struct">>}, i \in FieldIdentCtxs,
        v \in Opt({"Visibility"})}

CompleteFieldList ==
    /\ call.fn = "complete_field_list"
    /\ ret = None
    /\ ret' = Some(complete_field_list(call.acc, call))
    /\ UNCHANGED <<call, request>>

FieldListSpec == CallInit(FieldListCalls) /\ [][CompleteFieldList]_vars

\* ------------------- classify_name_ref: the qualifier of the completed path
MaxSegments == 3     \* most segments of a path

\* ast::PathSegment: its own `::` token, its kind, and for a kind of
\* PathSegmentKind::Type the type and the trait between `<` and `>`
Segment(coloncolon, k, type_ref, trait_ref) ==
    [coloncolon |-> coloncolon, kind |-> k, type_ref |-> type_ref,
     trait_ref |-> trait_ref]

\* the first segment of a path: the only one that can hold a `::` of its own
\* or be of the form <T> or <T as Trait>
FirstSegments ==
    {Segment(cc, k, None, None) : cc \in BOOLEAN, k \in {"Name", "super"}}
    \cup {Segment(FALSE, "Type", t, tr) :
            t \in Opt({"InferType", "PathType"}), tr \in Opt({"PathType"})}

\* a later segment: the `::` before it is a token of the path, not of the
\* segment
SegmentSeqs ==
    UNION {{<<f>> \o rest :
               f \in FirstSegments,
               rest \in [1..n -> {Segment(FALSE, k, None, None) : k \in {"Name", "super"}}]} :
              n \in 0..(MaxSegments - 1)}

\* ast::Path: the path that ends in segment number `at` of the segments of
\* the outermost path it is part of
Path(segs, at) == [segs |-> segs, at |-> at]

\* Path::qualifier
qualifier(path) ==
    IF path.at > 1 THEN Some(Path(path.segs, path.at - 1)) ELSE None

\* Path::segment
segment(path) == path.segs[path.at]

\* Path::top_path: parent_path followed to the outermost path
top_path(path) == Path(path.segs, Len(path.segs))

\* PathSegment::coloncolon_token().is_some()
coloncolon_token(seg) == seg.coloncolon

\* PathSegment::super_token().is_some()
super_token(seg) == seg.kind = "super"

\* iter::successors(Some(path), |p| p.qualifier())
Qualifiers(path) == {Path(path.segs, i) : i \in 1..path.at}

\* path_or_use_tree_qualifier: c.use_tree_list is the closest UseTreeList
\* above the path, with the UseTree above it and the path of that
path_or_use_tree_qualifier(path, use_tree_list) ==
    IF IsSome(qualifier(path))
    THEN Some(<<Unwrap(qualifier(path)), FALSE>>)
    ELSE IF IsSome(use_tree_list)
              /\ IsSome(Unwrap(use_tree_list).use_tree)
              /\ IsSome(Unwrap(Unwrap(use_tree_list).use_tree).path)
         THEN Some(<<Unwrap(Unwrap(Unwrap(use_tree_list).use_tree).path), TRUE>>)
         ELSE None

\* is_infer_qualifier with the trait of the segment not looked at
is_infer_qualifier_any_trait(path) ==
    /\ qualifier(path) = None
    /\ segment(path).kind = "Type"
    /\ segment(path).type_ref = Some("InferType")

\* `<_>::$0`
is_infer_qualifier(path) ==
    /\ qualifier(path) = None
    /\ segment(path).kind = "Type"
    /\ segment(path).type_ref = Some("InferType")
    /\ segment(path).trait_ref = None

is_super_chain(path) == \A p \in Qualifiers(path) : super_token(segment(p))

\* lines 1197-1234 of classify_name_ref: is_absolute_path and qualifier of
\* the path context.  c.path is the completed path, c.found whether
\* find_node_in_file finds the segment of the qualifier in the original file
PathQualifier(c) ==
    LET q == path_or_use_tree_qualifier(c.path, c.use_tree_list)
    IN  IF IsSome(q)
        THEN LET path == Unwrap(q)[1]
                 use_tree_parent == Unwrap(q)[2]
             IN  [is_absolute_path |->
                     IF ~use_tree_parent
                     THEN coloncolon_token(segment(top_path(path)))
                     ELSE FALSE,
                  qualifier |->
                     IF c.found
                     THEN Some([path |-> path,
                                is_super_chain |-> is_super_chain(path),
                                use_tree_parent |-> use_tree_parent,
                                is_infer_qualifier |-> is_infer_qualifier(path)])
                     ELSE None]
        ELSE [is_absolute_path |-> coloncolon_token(segment(c.path)),
              qualifier |-> None]

\* the paths a name reference can be the last name of
CompletedPaths ==
    {Path(segs, at) : segs \in SegmentSeqs, at \in 1..MaxSegments}

UseTreePaths ==
    {Path(<<Segment(cc, "Name", None, None)>>, 1) : cc \in BOOLEAN}

UseTreeLists ==
    Opt({[use_tree |-> u] : u \in Opt({[path |-> p] : p \in Opt(UseTreePaths)})})

PathQualifierCalls ==
    {[fn |-> "classify_name_ref", path |-> p, use_tree_list |-> u, found |-> f] :
        p \in {x \in CompletedPaths :
                  x.at <= Len(x.segs) /\ x.segs[x.at].kind = "Name"},
        u \in UseTreeLists, f \in BOOLEAN}

ClassifyQualifier ==
    /\ call.fn = "classify_name_ref"
    /\ ret = None
    /\ ret' = Some(PathQualifier(call))
    /\ UNCHANGED <<call, request>>

PathQualifierSpec == CallInit(PathQualifierCalls) /\ [][ClassifyQualifier]_vars

\* ----------------------------- fill: no name-like node found at the offset
\* a token as the fallback reads it: the kind of its parent and whether a
\* META is among the ancestors of that parent
TokenParents ==
    {[parent |-> k, meta_ancestor |-> m] :
        k \in {"TOKEN_TREE", "OTHER"}, m \in BOOLEAN}

\* the fix-up left out: the parent is always read from self.token
token_tree_in_meta_same_token(c) ==
    c.token.parent = "TOKEN_TREE" /\ c.token.meta_ancestor

\* the token is self.token, or self.previous_token when self.token is
\* whitespace (none: fill returns None); its parent is a TOKEN_TREE with a
\* META among its ancestors
token_tree_in_meta(c) ==
    LET token == IF c.token_is_whitespace THEN c.previous_token ELSE Some(c.token)
    IN  /\ IsSome(token)
        /\ Unwrap(token).parent = "TOKEN_TREE"
        /\ Unwrap(token).meta_ancestor

\* the None arm of the lookup of the name-like node, with the value fill
\* returns: the identifier context set, or None
fill_no_name_like(c) ==
    FillNoNameLike(c.file_with_fake_ident,
                   NoNameLikeFact(c.original_is_string, c.expanded_is_string,
                                  token_tree_in_meta(c), c.fake_attr))

NoNameLikeCalls ==
    {[fn |-> "fill_no_name_like",
      file_with_fake_ident |-> Tree("spec", 0, MarkerLen),
      original_is_string |-> s, expanded_is_string |-> e,
      token_is_whitespace |-> w, token |-> t, previous_token |-> p,
      fake_attr |-> a] :
        s \in BOOLEAN, e \in BOOLEAN, w \in BOOLEAN, t \in TokenParents,
        p \in Opt(TokenParents), a \in BOOLEAN}

FillNoNameLikeFound ==
    /\ call.fn = "fill_no_name_like"
    /\ ret = None
    /\ ret' = Some(fill_no_name_like(call))
    /\ UNCHANGED <<call, request>>

NoNameLikeSpec == CallInit(NoNameLikeCalls) /\ [][FillNoNameLikeFound]_vars

\* ------------------------------------------ CompletionContext::classify_name
\* every record pattern field taken for a shorthand
is_name_in_field_pat_any_field(ident_pat_parent, has_name_ref) ==
    ident_pat_parent = "RECORD_PAT_FIELD"

\* bind_pat.syntax().parent().and_then(ast::RecordPatField::cast)
\*     .map_or(false, |pat_field| pat_field.name_ref().is_none())
is_name_in_field_pat(ident_pat_parent, has_name_ref) ==
    IF ident_pat_parent = "RECORD_PAT_FIELD" THEN ~has_name_ref ELSE FALSE

classify_name_call(c) ==
    classify_name(c.original_file, c.file_with_fake_ident, c.parent, c.found,
                  is_name_in_field_pat(c.ident_pat_parent, c.has_name_ref), c.pf)

ClassifyNameCall(parent, found, ipp, pf) ==
    [fn |-> "classify_name",
     original_file |-> Tree("orig", 0, 1),
     file_with_fake_ident |-> Tree("spec", 0, 1 + MarkerLen),
     parent |-> parent, found |-> found,
     ident_pat_parent |-> ipp[1], has_name_ref |-> ipp[2], pf |-> pf]

\* an identifier pattern comes with its parent and, in a record pattern
\* field, with whether the field has a name reference
ClassifyNameCalls ==
    {ClassifyNameCall(p, n, <<"OTHER", FALSE>>, pf) :
        p \in NameParents \ {"IDENT_PAT"}, n \in BOOLEAN, pf \in NoPatFacts}
    \cup {ClassifyNameCall("IDENT_PAT", n, ipp, pf) :
            n \in BOOLEAN,
            ipp \in {<<"RECORD_PAT_FIELD", TRUE>>, <<"RECORD_PAT_FIELD", FALSE>>,
                     <<"OTHER", FALSE>>},
            pf \in IdentPatFacts}

ClassifyName ==
    /\ call.fn = "classify_name"
    /\ ret = None
    /\ ret' = Some(classify_name_call(call))
    /\ UNCHANGED <<call, request>>

ClassifyNameSpec == CallInit(ClassifyNameCalls) /\ [][ClassifyName]_vars

\* -------------------------------------- CompletionContext::classify_name_ref
MaxPathAncestors == 2   \* most ancestors of the completed path

\* an ancestor of the path: one that no arm of match_ast! takes (NoDecider),
\* or one an arm takes
PathAncestors ==
    Deciders
    \cup {NoDecider, [slot |-> "Item", node |-> "ASSOC_ITEM_LIST", owner |-> "OTHER"]}

\* an arm that yields no kind taken for no match
slot_of_skipping_ambiguous(it) ==
    IF IsSome(PathKindAt(it)) THEN Some(PathKindAt(it)) ELSE None

\* the closure of find_map for one ancestor: None (the search goes on),
\* Some(None) (the search ends without a kind) or Some(Some(kind))
slot_of(it) ==
    IF it.slot = "none" THEN None
    ELSE IF it.slot = "Item" /\ ~IsSome(ItemListKindOf(it.node, it.owner)) THEN None
    ELSE Some(PathKindAt(it))

\* path.syntax().ancestors().find_map(..): the first ancestor for which the
\* closure returns Some, from the path outward; NoDecider if there is none
RECURSIVE first_decider(_)
first_decider(ancestors) ==
    IF ancestors = <<>> THEN NoDecider
    ELSE IF IsSome(slot_of(Head(ancestors))) THEN Head(ancestors)
    ELSE first_decider(Tail(ancestors))

\* c: the parent of the name reference, what find_node_at_offset and
\* find_in_original_file find in the original file, the ancestors of the path
classify_name_ref_call(c) ==
    classify_name_ref(
        c.original_file, c.file_with_fake_ident,
        [NameRefFact(c.parent, c.found, c.receiver,
                     IF c.parent = "PATH_SEGMENT" THEN first_decider(c.ancestors)
                     ELSE NoDecider,
                     c.qualifier, c.parent_path)
            EXCEPT !.receiver_expr = c.receiver_expr],
        c.pf)

ClassifyNameRefCall(parent, found, receiver, receiver_expr, ancestors, qual, parent_path) ==
    [fn |-> "classify_name_ref",
     original_file |-> Tree("orig", 0, 1),
     file_with_fake_ident |-> Tree("spec", 0, 1 + MarkerLen),
     parent |-> parent, found |-> found, receiver |-> receiver,
     receiver_expr |-> receiver_expr, ancestors |-> ancestors,
     qualifier |-> qual, parent_path |-> parent_path,
     pf |-> PatFact("NONE", FALSE, "none", "OTHER", FALSE, FALSE, FALSE, FALSE)]

ClassifyNameRefCalls ==
    {ClassifyNameRefCall("OTHER", n, FALSE, NoLiteral, <<>>, "none", FALSE) :
        n \in BOOLEAN}
    \cup {ClassifyNameRefCall(p, n, r, NoLiteral, <<>>, "none", FALSE) :
            p \in {"FIELD_EXPR", "METHOD_CALL_EXPR"}, n \in BOOLEAN, r \in BOOLEAN}
    \cup {ClassifyNameRefCall("FIELD_EXPR", n, TRUE, e, <<>>, "none", FALSE) :
            n \in BOOLEAN, e \in ReceiverExprs}
    \cup {ClassifyNameRefCall("PATH_SEGMENT", n, FALSE, NoLiteral, a, q, FALSE) :
            n \in BOOLEAN,
            a \in UNION {[1..k -> PathAncestors] : k \in 0..MaxPathAncestors},
            q \in {"none", "found"}}

ClassifyNameRef ==
    /\ call.fn = "classify_name_ref"
    /\ ret = None
    /\ ret' = Some(classify_name_ref_call(call))
    /\ UNCHANGED <<call, request>>

ClassifyNameRefSpec == CallInit(ClassifyNameRefCalls) /\ [][ClassifyNameRef]_vars

\* ------------------------------------------------------ pattern_context_for
MaxPatAncestors == 2    \* most ancestors of the pattern

\* kinds ast::Pat::can_cast accepts, and the other kinds an ancestor can have
PatKinds == {"TUPLE_PAT", "REF_PAT"}

\* the ancestor right above the pattern taken, pattern or not
first_non_pat_unskipped(ancestors) ==
    IF ancestors = <<>> THEN "NONE"
    ELSE IF Head(ancestors) \in PatKinds THEN "OTHER"
    ELSE Head(ancestors)

\* pat.syntax().ancestors().skip_while(|it| ast::Pat::can_cast(it.kind()))
\*     .next(): ancestors are those above the pattern, which is skipped as a
\* pattern itself; "NONE" when patterns reach up to the root
RECURSIVE first_non_pat(_)
first_non_pat(ancestors) ==
    IF ancestors = <<>> THEN "NONE"
    ELSE IF Head(ancestors) \in PatKinds THEN first_non_pat(Tail(ancestors))
    ELSE Head(ancestors)

\* c: the ancestors of the pattern, whether the let statement or parameter
\* has a type, the parameter list (not a ParamList parent, lost in or found
\* in the original file) and the owner of the list found
pattern_context_for_call(c) ==
    pattern_context_for(
        c.original_file, c.file_with_fake_ident,
        PatFact(first_non_pat(c.ancestors), c.has_ty, c.param_list, c.owner,
                c.ancestors # <<>> /\ Head(c.ancestors) \in PatKinds,
                FALSE, FALSE, FALSE))

PatternContextCalls ==
    {[fn |-> "pattern_context_for",
      original_file |-> Tree("orig", 0, 1),
      file_with_fake_ident |-> Tree("spec", 0, 1 + MarkerLen),
      ancestors |-> a, has_ty |-> t, param_list |-> l, owner |-> o] :
        a \in UNION {[1..n -> PatKinds \cup (PatAncestors \ {"NONE"})] :
                        n \in 0..MaxPatAncestors},
        t \in BOOLEAN, l \in {"none", "lost", "found"},
        o \in {"CLOSURE_EXPR", "FN", "OTHER"}}

PatternContextFor ==
    /\ call.fn = "pattern_context_for"
    /\ ret = None
    /\ ret' = Some(pattern_context_for_call(call))
    /\ UNCHANGED <<call, request>>

PatternContextSpec == CallInit(PatternContextCalls) /\ [][PatternContextFor]_vars

\* ------------------------------------------------------------------ claims
WalkerSteps == {"ancestors", "derive", "macro"}

\* the arguments fill gets when it is called with the walker's current state
CurrentArgs ==
    Some([original_file |-> original_file, file_with_fake_ident |-> speculative_file,
          offset |-> offset, derive_ctx |-> derive_ctx])

\* C1: when the path texts of the two enclosing macro calls differ, the
\* function-like macro step expands nothing, the walk stops, and the trees,
\* offset and placeholder token from before the step are what fill is called
\* with.
C1_DivergenceGuard ==
    [][/\ (pc = "macro" /\ ev'.step = "macro" /\ ev'.path0 # ev'.path1)
            => (walker' = walker /\ derive_ctx' = derive_ctx /\ pc' = "call_fill")
       /\ (pc = "call_fill" /\ ev.step = "macro" /\ ev.path0 # ev.path1)
            => (pc' = "fill" /\ walker' = walker /\ fill_args' = CurrentArgs)]_vars

C1_Witness ==
    /\ pc = "call_fill"
    /\ ev.step = "macro"
    /\ ev.path0 # ev.path1
    /\ original_file.gen = 1

\* C2: in the attribute step and in the function-like macro step, when both
\* expansions succeed but the mapped placeholder token starts after the end
\* of the original expansion, the walk stops and none of the four walker
\* components is replaced.
C2_OutOfRangeGuard ==
    [][(/\ pc \in {"ancestors", "macro"}
        /\ ev'.step \in {"attr", "macro"}
        /\ ev'.orig_ok /\ ev'.spec_ok
        /\ ev'.new_offset > ev'.orig_end)
          => (walker' = walker /\ pc' = "call_fill")]_vars

C2_Witness ==
    /\ pc = "call_fill"
    /\ ev.step = "attr"
    /\ ev.orig_ok /\ ev.spec_ok
    /\ ev.new_offset > ev.orig_end
    /\ original_file.gen = 1

\* C3: after every expansion step whose result classification uses, the
\* mapped offset does not exceed the end of the original expansion; a derive
\* pseudo-expansion with an offset past the end of the original derive
\* expansion is not used for classification.
C3_OffsetWithinOriginal ==
    pc = "fill" =>
        /\ Unwrap(fill_args).offset <= TextEnd(Unwrap(fill_args).original_file)
        /\ IsSome(Unwrap(fill_args).derive_ctx) =>
             Unwrap(Unwrap(fill_args).derive_ctx).offset
                <= TextEnd(Unwrap(Unwrap(fill_args).derive_ctx).actual)

\* C4: the four walker components are replaced only all together and only
\* when both expansions of the step succeeded; when exactly one of the two
\* expansions of an attribute or function-like macro step succeeds, the walk
\* stops, no further pair or step is tried, and the four components keep
\* their values.
C4_AllOrNothing ==
    [][/\ (pc # "new" /\ walker' # walker)
            => /\ original_file' # original_file
               /\ speculative_file' # speculative_file
               /\ fake_ident_token' # fake_ident_token
               /\ original_file'.gen = speculative_file'.gen
               /\ fake_ident_token'.tree = speculative_file'
               /\ offset' = fake_ident_token'.start
               /\ ev'.step \in {"attr", "macro"}
               /\ ev'.orig_ok /\ ev'.spec_ok
       /\ (pc \in {"ancestors", "macro"} /\ ev'.step \in {"attr", "macro"}
           /\ ev'.orig_ok # ev'.spec_ok)
            => (walker' = walker /\ pc' = "call_fill")]_vars

C4_Witness ==
    /\ pc = "call_fill"
    /\ ev.step = "attr"
    /\ ev.orig_ok # ev.spec_ok
    /\ ancestors_left > 1
    /\ original_file.gen = 1

\* the syntax nodes and tokens a context stores, with the field they are in
OptNode(field, o) == IF IsSome(o) THEN {[field |-> field, node |-> Unwrap(o)]} ELSE {}

IdentNodes(i) ==
    CASE i.variant = "Name" -> OptNode("name", i.name) \cup OptNode("module", i.module)
      [] i.variant = "Lifetime" ->
           OptNode("lifetime", i.lifetime) \cup OptNode("lifetime_param", i.param)
      [] i.variant = "String" ->
           OptNode("original", Some(i.original)) \cup OptNode("expanded", i.expanded)
      [] i.variant = "UnexpandedAttrTT" ->
           OptNode("fake_attribute_under_caret", i.fake_attribute_under_caret)
      [] OTHER ->
           OptNode("nameref", i.nameref)
           \cup (IF IsSome(i.dot_access)
                 THEN OptNode("receiver", Unwrap(i.dot_access).receiver) ELSE {})
           \cup (IF IsSome(i.path_ctx) /\ IsSome(Unwrap(i.path_ctx).qualifier)
                 THEN OptNode("qualifier",
                              Some(Unwrap(Unwrap(i.path_ctx).qualifier).path))
                 ELSE {})

PatternNodes(p) ==
    IF ~IsSome(p) THEN {}
    ELSE (IF IsSome(Unwrap(p).param_ctx)
          THEN OptNode("param_list", Some(Unwrap(Unwrap(p).param_ctx).param_list))
               \cup OptNode("param", Some(Unwrap(Unwrap(p).param_ctx).param))
          ELSE {})
         \cup OptNode("parent_pat", Unwrap(p).parent_pat)
         \cup OptNode("ref_token", Unwrap(p).ref_token)
         \cup OptNode("mut_token", Unwrap(p).mut_token)

StoredNodes(c) == IdentNodes(c.ident_ctx) \cup PatternNodes(c.pattern_ctx)

\* the fields that are looked up in the original tree
OriginalFields == {"name", "lifetime", "nameref", "receiver", "qualifier",
                   "param_list", "original", "expanded"}

\* the fields that keep the node found in the file with the fake ident
FakeFields == {"module", "lifetime_param", "fake_attribute_under_caret", "param",
               "parent_pat", "ref_token", "mut_token"}

\* C5 as stated: every node or token stored in the identifier context and in
\* the pattern context of a constructed context is from the original tree.
C5_OnlyOriginalNodes ==
    returned.tag = "Some" =>
        \A n \in StoredNodes(Unwrap(returned.ctx)) : n.node.tree.side = "orig"

\* C5 amended: the name, lifetime, name reference, receiver, qualifier path,
\* parameter list and string tokens of a constructed context are from the
\* original tree; the module of a Module name kind, the parameter of a
\* LifetimeParam kind, the attribute of UnexpandedAttrTT and the parameter,
\* parent pattern, ref token and mut token of the pattern context are from
\* the tree with the fake ident.
C5_NodeOrigins ==
    returned.tag = "Some" =>
        \A n \in StoredNodes(Unwrap(returned.ctx)) :
            /\ n.field \in OriginalFields => n.node.tree.side = "orig"
            /\ n.field \in FakeFields => n.node.tree.side = "spec"
            /\ n.field \in OriginalFields \cup FakeFields

C5_Witness ==
    /\ returned.tag = "Some"
    /\ Unwrap(returned.ctx).ident_ctx.variant = "Name"
    /\ Unwrap(returned.ctx).ident_ctx.kind = "Module"
    /\ IsSome(Unwrap(returned.ctx).ident_ctx.name)
    /\ original_file.gen = 1

\* C6: leaving the walker loop never fails the construction by itself: every
\* exit of the loop leads to exactly one call of fill, with the walker's
\* current trees, offset and derive context, and new returns no context
\* after the walk only if fill returned none.
C6_StopIsNotFailure ==
    [][/\ (pc \in WalkerSteps /\ pc' \notin WalkerSteps \cup {"loop", "unwound"})
            => (pc' = "call_fill" /\ returned' = Pending /\ fill_calls' = 0)
       /\ pc = "call_fill"
            => (pc' = "fill" /\ fill_calls' = 1 /\ fill_args' = CurrentArgs
                /\ walker' = walker /\ derive_ctx' = derive_ctx)
       /\ pc = "fill"
            => (fill_calls' = 1
                /\ (returned'.tag = "None" => ev'.step = "fill" /\ ~ev'.filled)
                /\ (ev'.step = "fill" /\ ev'.filled => returned'.tag = "Some"))]_vars

C6_Witness ==
    /\ pc = "done"
    /\ fill_calls = 1
    /\ returned.tag = "Some"
    /\ original_file.gen = 1
    /\ Unwrap(fill_args).original_file = original_file

\* C7: the walker terminates: an iteration is followed by another one only
\* if it adopted an expansion pair, which is one expansion deeper, and when
\* the semantic model allows finitely many nested expansions every walk
\* reaches the call of fill, unless it is cancelled.
C7_WalkerTerminates ==
    /\ [][(pc \in WalkerSteps /\ pc' = "loop")
            => /\ original_file'.gen = original_file.gen + 1
               /\ speculative_file'.gen = speculative_file.gen + 1
               /\ ev'.orig_ok /\ ev'.spec_ok
               /\ ev'.new_offset <= ev'.orig_end]_vars
    /\ (pc = "loop") ~> (pc \in {"fill", "unwound"})

C7_Witness ==
    /\ pc = "fill"
    /\ original_file.gen = MaxDepth

\* C8: new returns no context when the file has no token at the offset and
\* when the placeholder is in the for-loop position where only `in` can
\* follow; with no token the walker and fill are not run at all.
C8_NoTokenNoContext ==
    /\ (pc # "new" /\ position.len = 0)
         => (/\ returned.tag \in {"None", "unwound"}
             /\ fill_calls = 0
             /\ walker = <<NoTree, NoTree, 0, NoToken>>
             /\ ctx = None)
    /\ (ev.step = "fill" /\ ev.in_for_loop) => returned = ReturnNone

C8_Witness ==
    /\ pc = "done"
    /\ position.len = 0
    /\ returned = ReturnNone
    /\ ev.step = "new"
    /\ ~ev.orig_ok

\* C10: when a semantic-model call is cancelled during the walk or during
\* classification, the construction is abandoned and the caller receives no
\* context, neither a complete nor a partly filled one.
C10_CancelledNoContext ==
    cancelled => (pc = "unwound" /\ returned = Unwound)

C10_Witness ==
    /\ cancelled
    /\ returned = Unwound
    /\ IsSome(ctx)
    /\ original_file.gen = 1

C12_DocHiddenForeignIsNo ==
    (call.fn = "is_visible" /\ IsSome(ret)) =>
        /\ (call.has_doc_hidden /\ call.defining_crate # call.krate)
              => Unwrap(ret) = "No"
        /\ (call.has_doc_hidden /\ call.defining_crate = call.krate
              /\ call.is_visible_from) => Unwrap(ret) = "Yes"

\* the innermost ancestor of the cursor token of a listed kind, if any
Containers(c) == {i \in 1..Len(c.chain) : c.chain[i].kind \notin OtherKinds}
Innermost(c) == c.chain[CHOOSE i \in Containers(c) : \A j \in Containers(c) : i <= j]
ExpectedOf(k) ==
    /\ call.fn = "expected_type_and_name"
    /\ IsSome(ret)
    /\ Containers(call) # {}
    /\ Innermost(call).kind = k

\* C13: when the innermost container around the cursor token is a let
\* statement, the expected type is the type of the let pattern, or the type
\* of the initializer if the pattern has no type, and the expected name is
\* the bound name exactly when the pattern is an identifier pattern.
C13_LetStatement ==
    ExpectedOf("LET_STMT") =>
        LET it == Innermost(call)
            pat_ty == IF IsSome(it.pat) THEN Unwrap(it.pat).type_of_pat ELSE None
            init_ty == IF IsSome(it.initializer)
                       THEN Unwrap(it.initializer).type_of_expr ELSE None
        IN  /\ IsSome(pat_ty) => Unwrap(ret)[1] = Some(Unwrap(pat_ty).original)
            /\ (~IsSome(pat_ty) /\ IsSome(init_ty))
                  => Unwrap(ret)[1] = Some(Unwrap(init_ty).original)
            /\ (~IsSome(pat_ty) /\ ~IsSome(init_ty)) => Unwrap(ret)[1] = None
            /\ (IsSome(it.pat) /\ Unwrap(it.pat).kind = "IDENT_PAT")
                  => Unwrap(ret)[2] = Unwrap(it.pat).name
            /\ ~(IsSome(it.pat) /\ Unwrap(it.pat).kind = "IDENT_PAT")
                  => Unwrap(ret)[2] = None

\* `let x: T = e$0;` with e of another type: type T, name x
C13_Witness ==
    /\ ExpectedOf("LET_STMT")
    /\ Innermost(call).pat
         = Some([kind |-> "IDENT_PAT", name |-> Some("x"),
                 type_of_pat |-> Some([original |-> Ty(0, "u32"),
                                       adjusted |-> None])])
    /\ IsSome(Innermost(call).initializer)
    /\ Unwrap(Innermost(call).initializer).type_of_expr
         = Some([original |-> Ty(1, "u32"), adjusted |-> None])
    /\ ret = Some(<<Some(Ty(0, "u32")), Some("x")>>)

\* the cursor token is preceded by `&`, with an optional `mut`, an optional
\* whitespace and an optional identifier, in this order, in between
PrecededByRef(toks) ==
    \E m \in BOOLEAN, w \in BOOLEAN, i \in BOOLEAN :
        LET tail == <<"&">> \o (IF m THEN <<"mut">> ELSE <<>>)
                            \o (IF w THEN <<"WHITESPACE">> ELSE <<>>)
                            \o (IF i THEN <<"IDENT">> ELSE <<>>)
        IN  /\ Len(toks) >= Len(tail)
            /\ SubSeq(toks, Len(toks) - Len(tail) + 1, Len(toks)) = tail

\* C14: when the innermost container around the cursor token is a call
\* argument list with an active parameter, the expected name is the
\* parameter's name and the expected type is the parameter's type with one
\* reference layer removed if the cursor token is preceded by `&`, and the
\* unchanged parameter type otherwise; with no active parameter both are
\* absent.
C14_CallArgument ==
    ExpectedOf("ARG_LIST") =>
        IF IsSome(call.active_parameter)
        THEN LET ap == Unwrap(call.active_parameter)
             IN  /\ Unwrap(ret)[2] = ap.ident
                 /\ (PrecededByRef(call.toks) /\ ap.ty.refs > 0)
                       => Unwrap(ret)[1] = Some(Ty(ap.ty.refs - 1, ap.ty.base))
                 /\ ~PrecededByRef(call.toks) => Unwrap(ret)[1] = Some(ap.ty)
        ELSE ret = Some(<<None, None>>)

\* `bar(&mut c$0)` with bar(x: &&u32): type &u32, name x
C14_Witness ==
    /\ ExpectedOf("ARG_LIST")
    /\ call.toks = <<"&", "mut", "WHITESPACE", "IDENT">>
    /\ call.active_parameter = Some([ident |-> Some("x"), ty |-> Ty(2, "u32")])
    /\ ret = Some(<<Some(Ty(1, "u32")), Some("x")>>)

\* C15: when the innermost container around the cursor token is a
\* record-expression field, the expected name is the name of that field and
\* the expected type is the type of the field's value expression if one is
\* present, and the declared type of the resolved field if it is elided.
C15_RecordField ==
    ExpectedOf("RECORD_EXPR_FIELD") =>
        LET it == Innermost(call)
        IN  /\ Unwrap(ret)[2] = it.field_name
            /\ IsSome(it.expr) =>
                  Unwrap(ret)[1] =
                     IF IsSome(Unwrap(it.expr).type_of_expr)
                     THEN Some(Unwrap(Unwrap(it.expr).type_of_expr).original)
                     ELSE None
            /\ ~IsSome(it.expr) => Unwrap(ret)[1] = it.resolve_record_field

\* `Foo { a: $0, }` with the field a: u32: type u32, name a
C15_Witness ==
    /\ ExpectedOf("RECORD_EXPR_FIELD")
    /\ ~IsSome(Innermost(call).expr)
    /\ Innermost(call).resolve_record_field = Some(Ty(0, "u32"))
    /\ ret = Some(<<Some(Ty(0, "u32")), Some("a")>>)

\* the context is a record-field name position
RecordFieldName(i) == i.variant = "Name" /\ i.kind = "RecordField"

\* the context is an unqualified tuple-struct type slot
TupleStructTypeSlot(i) ==
    /\ i.variant = "NameRef"
    /\ \E p \in FieldPathCtxs :
          /\ i.path_ctx = Some(p)
          /\ p.kind.variant = "Type" /\ p.kind.in_tuple_struct
          /\ ~p.has_macro_bang /\ ~p.is_absolute_path /\ ~p.has_type_args
          /\ ~IsSome(p.qualifier) /\ ~IsSome(p.parent)

\* the items the call added to acc
Added == SubSeq(Unwrap(ret), Len(call.acc) + 1, Len(Unwrap(ret)))

\* C16: complete_field_list adds exactly the keyword snippets pub(crate),
\* pub(super) and pub when the context is a record-field name position or an
\* unqualified tuple-struct type slot and no visibility node is written yet;
\* in every other context, and when a visibility node precedes, it adds
\* nothing.
C16_FieldListKeywords ==
    (call.fn = "complete_field_list" /\ IsSome(ret)) =>
        /\ SubSeq(Unwrap(ret), 1, Len(call.acc)) = call.acc
        /\ Added = IF /\ RecordFieldName(call.ident_ctx)
                         \/ TupleStructTypeSlot(call.ident_ctx)
                      /\ ~IsSome(call.vis_node)
                   THEN <<"pub(crate)", "pub(super)", "pub">>
                   ELSE <<>>

\* the three keywords were added in a tuple-struct type slot
C16_Witness ==
    /\ call.fn = "complete_field_list"
    /\ IsSome(ret)
    /\ TupleStructTypeSlot(call.ident_ctx)
    /\ call.acc = <<"struct">>
    /\ Unwrap(ret) = <<"struct", "pub(crate)", "pub(super)", "pub">>

\* the qualifier the path context is built from: written on the path itself,
\* inherited from a use tree, or none
ExplicitQualifier == call.fn = "classify_name_ref" /\ IsSome(ret) /\ call.path.at > 1
InheritedQualifier ==
    /\ call.fn = "classify_name_ref" /\ IsSome(ret) /\ call.path.at = 1
    /\ IsSome(path_or_use_tree_qualifier(call.path, call.use_tree_list))
NoQualifier ==
    /\ call.fn = "classify_name_ref" /\ IsSome(ret) /\ call.path.at = 1
    /\ ~IsSome(path_or_use_tree_qualifier(call.path, call.use_tree_list))

\* C17: for a path with a qualifier of its own the absolute-path flag is true
\* exactly when the whole path begins with `::`; for a qualifier inherited
\* from a use tree it is false; with no qualifier it is true exactly when
\* the completed segment has a leading `::`.
C17_AbsolutePathFlag ==
    /\ ExplicitQualifier =>
          (Unwrap(ret).is_absolute_path <=> call.path.segs[1].coloncolon)
    /\ InheritedQualifier => ~Unwrap(ret).is_absolute_path
    /\ NoQualifier =>
          (Unwrap(ret).is_absolute_path <=> call.path.segs[call.path.at].coloncolon)

\* C18: the inferred-type-qualifier flag of a qualifier context is true
\* exactly when the qualifier has no qualifier of its own and its segment is
\* a bare inferred type <_> without a trait; for `<_>::$0` the flag is true
\* and the absolute-path flag is false.
C18_InferQualifierFlag ==
    (call.fn = "classify_name_ref" /\ IsSome(ret) /\ IsSome(Unwrap(ret).qualifier)) =>
        LET q == Unwrap(Unwrap(ret).qualifier)
            first == q.path.segs[1]
        IN  /\ q.is_infer_qualifier <=>
                  /\ q.path.at = 1
                  /\ first.kind = "Type"
                  /\ first.type_ref = Some("InferType")
                  /\ first.trait_ref = None
            /\ (call.path.segs = <<Segment(FALSE, "Type", Some("InferType"), None),
                                   Segment(FALSE, "Name", None, None)>>
                  /\ call.path.at = 2)
                  => q.is_infer_qualifier /\ ~Unwrap(ret).is_absolute_path

\* `<_>::$0` was classified
C18_Witness ==
    /\ call.fn = "classify_name_ref"
    /\ call.path = Path(<<Segment(FALSE, "Type", Some("InferType"), None),
                          Segment(FALSE, "Name", None, None)>>, 2)
    /\ IsSome(ret)
    /\ IsSome(Unwrap(ret).qualifier)
    /\ Unwrap(Unwrap(ret).qualifier).is_infer_qualifier
    /\ ~Unwrap(ret).is_absolute_path

\* the path context of the context the caller received, if it has one
ReturnedPathCtx ==
    IF returned.tag = "Some"
          /\ Unwrap(returned.ctx).ident_ctx.variant = "NameRef"
    THEN Unwrap(returned.ctx).ident_ctx.path_ctx
    ELSE None

\* fill classified a placeholder that is the path of a macro call standing
\* in the item list of a module
MacroCallInItemList ==
    /\ pc = "done"
    /\ ev.step = "fill"
    /\ ev.decider = Some([slot |-> "MacroCall", node |-> "ITEM_LIST",
                          owner |-> "MODULE"])

ModuleItemSlot ==
    MacroCallInItemList =>
        /\ IsSome(ReturnedPathCtx)
        /\ Unwrap(ReturnedPathCtx).kind = "Item"
        /\ Unwrap(ReturnedPathCtx).item_kind = Some("Module")

\* C19 as stated: the path of a macro call in the item list of a module gets
\* the slot Item of kind Module; after a failed macro expansion the walk
\* stops without error, the caller gets no path context and no failure.
C19_NoPathCtxAfterFailedExpansion ==
    /\ ModuleItemSlot
    /\ (ev.macro_failed /\ returned.tag = "unwound") => cancelled
    /\ (ev.macro_failed /\ pc = "done") => ~IsSome(ReturnedPathCtx)

\* C19, amended: the path of a macro call in the item list of a module gets
\* the slot Item of kind Module; after a failed macro expansion the walk
\* stops at once with its trees unchanged, fill classifies the placeholder
\* there and the caller gets what fill yields, with a path context if a name
\* reference stands at the offset, and no failure other than a cancellation.
C19_MacroItemSlot ==
    /\ []ModuleItemSlot
    /\ [][(pc = "macro" /\ MacroExpansionFailed')
            => (pc' = "call_fill" /\ walker' = walker /\ returned' = Pending)]_vars
    /\ []((pc = "done" /\ ev.step = "fill" /\ ev.macro_failed)
            => returned = ExpandAndFillResult(IF ev.filled THEN ctx ELSE None))
    /\ []((ev.macro_failed /\ returned.tag = "unwound") => cancelled)

\* the path of a macro call in the item list of a module was classified
C19_Witness ==
    /\ MacroCallInItemList
    /\ IsSome(ReturnedPathCtx)
    /\ Unwrap(ReturnedPathCtx).kind = "Item"
    /\ Unwrap(ReturnedPathCtx).item_kind = Some("Module")
    /\ ev.macro_failed

\* C20: in every iteration of the walker the attribute expansion is tried
\* first, on the pairs of enclosing items from the innermost one outward; a
\* pair on which neither side expands is skipped and the next outer pair is
\* tried; the derive and function-like macro steps are tried only in an
\* iteration in which no pair of the chain expanded on either side.
C20_AttributesFirst ==
    /\ [][/\ (pc = "loop" /\ pc' # "unwound")
               => (pc' = "ancestors" /\ ancestors_left' = ev'.pairs)
          /\ (pc = "ancestors" /\ ev'.step = "attr")
               => /\ ancestors_left > 0
                  /\ IF ~ev'.orig_ok /\ ~ev'.spec_ok
                     THEN pc' = "ancestors" /\ ancestors_left' = ancestors_left - 1
                     ELSE pc' \in {"loop", "call_fill"}
          /\ (pc \in WalkerSteps /\ ev'.step \in {"tt", "derive", "macro", "nomacro"})
               => /\ ancestors_left = 0
                  /\ ev.step = "loop" \/ ev.step = "tt"
                        \/ (ev.step = "attr" /\ ~ev.orig_ok /\ ~ev.spec_ok)]_vars
    /\ [](pc \in {"derive", "macro"} => (ancestors_left = 0 /\ ev.step = "tt"))
    /\ [](pc = "ancestors" /\ ev.step = "attr" => ~ev.orig_ok /\ ~ev.spec_ok)

\* the outermost pair of the second iteration was skipped: the token trees
\* are looked for next
C20_Witness ==
    /\ pc = "ancestors"
    /\ ev.step = "attr"
    /\ ~ev.orig_ok /\ ~ev.spec_ok
    /\ ancestors_left = 0
    /\ original_file.gen = 1

\* C21: when the token trees at the offset are the arguments of an attribute
\* in both trees, the walk ends in that iteration whether or not the derive
\* pseudo-expansion succeeds: no function-like macro expansion follows, a
\* derive context is recorded exactly if both derive expansions succeed, and
\* the walker's trees, offset and placeholder token keep their values.
C21_DeriveIsLast ==
    /\ [][/\ (ev'.step = "tt" /\ ev'.orig_ok /\ ev'.spec_ok /\ ev'.has_args)
               => pc' = "derive"
          /\ pc = "derive"
               => /\ pc' \in {"call_fill", "unwound"}
                  /\ walker' = walker
                  /\ pc' = "unwound" => (cancelled' /\ derive_ctx' = None)
                  /\ pc' = "call_fill"
                       => /\ ev'.step = "derive"
                          /\ IsSome(derive_ctx') <=> (ev'.orig_ok /\ ev'.spec_ok)
          /\ ev.step = "derive" => (pc' \in {"fill", "done", "unwound"}
                                     /\ walker' = walker)
          /\ IsSome(derive_ctx) => (derive_ctx' = derive_ctx /\ walker' = walker
                                     /\ pc' \in {"fill", "done", "unwound"})]_vars
    /\ [](pc = "derive" => (ev.step = "tt" /\ ev.has_args /\ derive_ctx = None))

\* the derive expansion of the original tree failed, and the walk ended at
\* the call of fill without a derive context
C21_Witness ==
    /\ pc = "call_fill"
    /\ ev.step = "derive"
    /\ ~ev.orig_ok /\ ev.spec_ok
    /\ derive_ctx = None
    /\ fill_calls = 0

\* fill has returned to a walker that had recorded a derive context
FilledAfterDerive ==
    /\ pc = "done"
    /\ ev.step = "fill"
    /\ IsSome(derive_ctx)

ReturnedIdentCtx == Unwrap(returned.ctx).ident_ctx

\* C22 as stated: if a derive context was recorded, every context produced
\* has a NameRef identifier context whose path context is present with kind
\* Derive and carries the derives resolved on the attribute; if no name
\* reference is found at the offset of the derive expansion, no context is
\* produced.
C22_DerivePathCtxPresent ==
    FilledAfterDerive =>
        /\ returned.tag = "Some"
             => /\ ReturnedIdentCtx.variant = "NameRef"
                /\ IsSome(ReturnedIdentCtx.path_ctx)
                /\ Unwrap(ReturnedIdentCtx.path_ctx).kind = "Derive"
                /\ Unwrap(returned.ctx).existing_derives
        /\ ev.name_like # "NameRef" => returned = ReturnNone

\* C22, amended: if a derive context was recorded, every context produced
\* has a NameRef identifier context and carries the derives resolved on the
\* attribute; its path context, where classify_name_ref built one, has kind
\* Derive, and it is absent for a dot access and for a path without a slot;
\* a context is produced exactly if a name reference is found at the offset
\* of the derive expansion, and no pattern context comes with it.
C22_DeriveKind ==
    FilledAfterDerive =>
        /\ returned.tag = "Some"
             => /\ ReturnedIdentCtx.variant = "NameRef"
                /\ IsSome(ReturnedIdentCtx.path_ctx)
                     => Unwrap(ReturnedIdentCtx.path_ctx).kind = "Derive"
                /\ IsSome(ReturnedIdentCtx.path_ctx)
                     => ~IsSome(ReturnedIdentCtx.dot_access)
                /\ Unwrap(returned.ctx).existing_derives
                /\ Unwrap(returned.ctx).pattern_ctx = None
        /\ ev.name_like \in {"none", "NameRef", "unasked"}
        /\ ev.name_like = "NameRef" <=> returned.tag = "Some"
        /\ ev.name_like # "NameRef" => returned = ReturnNone

\* a path in a module's item list of the derive expansion got the kind Derive
C22_Witness ==
    /\ FilledAfterDerive
    /\ returned.tag = "Some"
    /\ ReturnedIdentCtx.variant = "NameRef"
    /\ IsSome(ReturnedIdentCtx.path_ctx)
    /\ Unwrap(ReturnedIdentCtx.path_ctx).kind = "Derive"
    /\ Unwrap(ReturnedIdentCtx.path_ctx).item_kind = Some("Module")
    /\ IsSome(ReturnedIdentCtx.nameref)

\* the token the fallback reads: the token at the cursor, or the previous
\* token when that one is whitespace
FallbackToken ==
    IF call.token_is_whitespace THEN call.previous_token ELSE Some(call.token)

\* C23: when no name-like node is found at the offset: if the real token at
\* the cursor is a string literal the context is String, also inside the
\* token tree of an attribute; otherwise, if the token (the previous token
\* when the token is whitespace) has a TOKEN_TREE parent with a META among
\* its ancestors, the context is UnexpandedAttrTT; otherwise no context is
\* produced.
C23_NoNameLikeFallback ==
    (call.fn = "fill_no_name_like" /\ IsSome(ret)) =>
        IF call.original_is_string
        THEN /\ IsSome(Unwrap(ret))
             /\ Unwrap(Unwrap(ret)).variant = "String"
             /\ IsSome(Unwrap(Unwrap(ret)).expanded) <=> call.expanded_is_string
        ELSE IF /\ IsSome(FallbackToken)
                /\ Unwrap(FallbackToken).parent = "TOKEN_TREE"
                /\ Unwrap(FallbackToken).meta_ancestor
        THEN /\ IsSome(Unwrap(ret))
             /\ Unwrap(Unwrap(ret)).variant = "UnexpandedAttrTT"
        ELSE Unwrap(ret) = None

\* the token at the cursor is whitespace outside of any token tree, the
\* token before it lies in the token tree of an attribute
C23_Witness ==
    /\ call.fn = "fill_no_name_like"
    /\ ~call.original_is_string
    /\ call.token_is_whitespace
    /\ call.token = [parent |-> "OTHER", meta_ancestor |-> FALSE]
    /\ call.previous_token = Some([parent |-> "TOKEN_TREE", meta_ancestor |-> TRUE])
    /\ IsSome(ret)
    /\ IsSome(Unwrap(ret))
    /\ Unwrap(Unwrap(ret)).variant = "UnexpandedAttrTT"

\* the parents the claim lists, with the name kind of each
ListedNameParents ==
    {"CONST", "CONST_PARAM", "ENUM", "FN", "IDENT_PAT", "MACRO_DEF", "MACRO_RULES",
     "MODULE", "RECORD_FIELD", "RENAME", "SELF_PARAM", "STATIC", "STRUCT", "TRAIT",
     "TYPE_ALIAS", "TYPE_PARAM", "UNION", "VARIANT"}

\* C24: for a name in declaration position the name kind is determined by
\* the kind of the parent node alone, within the closed set of eighteen
\* parents; any other parent yields no context; a pattern context is built
\* exactly when the parent is an identifier pattern that is not the
\* shorthand of a record pattern field.
C24_NameKindByParent ==
    (call.fn = "classify_name" /\ IsSome(ret)) =>
        /\ DOMAIN NameKindOf = ListedNameParents
        /\ \A p, q \in ListedNameParents : NameKindOf[p] = NameKindOf[q] => p = q
        /\ IsSome(Unwrap(ret)) <=> call.parent \in ListedNameParents
        /\ IsSome(Unwrap(ret)) =>
             LET r == Unwrap(Unwrap(ret))
             IN  /\ r.name_ctx.variant = "Name"
                 /\ r.name_ctx.kind = NameKindOf[call.parent]
                 /\ IsSome(r.pat_ctx)
                      <=> /\ call.parent = "IDENT_PAT"
                          /\ ~(call.ident_pat_parent = "RECORD_PAT_FIELD"
                                 /\ ~call.has_name_ref)

\* the identifier pattern of a record pattern field that names its field
\* got a pattern context
C24_Witness ==
    /\ call.fn = "classify_name"
    /\ call.parent = "IDENT_PAT"
    /\ call.ident_pat_parent = "RECORD_PAT_FIELD"
    /\ call.has_name_ref
    /\ IsSome(ret)
    /\ IsSome(Unwrap(ret))
    /\ Unwrap(Unwrap(ret)).name_ctx.kind = "IdentPat"
    /\ IsSome(Unwrap(Unwrap(ret)).pat_ctx)

\* classify_name_ref has returned for a field access
FieldAccessClassified ==
    /\ call.fn = "classify_name_ref"
    /\ call.parent = "FIELD_EXPR"
    /\ IsSome(ret)

ReturnedDotAccess == Unwrap(Unwrap(ret).nameref_ctx.dot_access)

\* digits alone, as the text of an integer
IsIntegerText(text) == text # <<>> /\ \A i \in 1..Len(text) : text[i] \in {"0", "1"}

\* C25: for a field access the float-ambiguity flag is set exactly when the
\* receiver, as found in the original tree, is a literal whose text is an
\* integer followed by a bare dot; it is false for every other receiver and
\* when the receiver is not found in the original tree.
C25_IntegerLiteralWithDot ==
    FieldAccessClassified =>
        /\ IsSome(Unwrap(ret).nameref_ctx.dot_access)
        /\ ReturnedDotAccess.kind = "Field"
        /\ IsSome(ReturnedDotAccess.receiver) <=> call.receiver
        /\ ReturnedDotAccess.receiver_is_ambiguous_float_literal
             <=> /\ call.receiver
                 /\ IsSome(call.receiver_expr.literal)
                 /\ LET text == Unwrap(call.receiver_expr.literal)
                    IN  /\ text[Len(text)] = "."
                        /\ IsIntegerText(SubSeq(text, 1, Len(text) - 1))

\* the receiver found in the original tree is the literal `1.`
C25_Witness ==
    /\ FieldAccessClassified
    /\ call.receiver
    /\ call.receiver_expr = [literal |-> Some(<<"1", ".">>)]
    /\ ReturnedDotAccess.receiver_is_ambiguous_float_literal
    /\ IsSome(ReturnedDotAccess.receiver)

\* classify_name_ref has returned for a name reference in a path segment
PathSegmentClassified ==
    /\ call.fn = "classify_name_ref"
    /\ call.parent = "PATH_SEGMENT"
    /\ IsSome(ret)

\* an ancestor that belongs to the slot set: an arm of match_ast! takes it;
\* an associated item list owned by neither a trait nor an impl is passed
\* over like any node outside of the set
InSlotSet(it) ==
    /\ it.slot # "none"
    /\ ~(it.slot = "Item" /\ it.node = "ASSOC_ITEM_LIST" /\ it.owner = "OTHER")

\* the positions of the ancestors of the slot set, counted from the path
SlotPositions == {i \in 1..Len(call.ancestors) : InSlotSet(call.ancestors[i])}

FirstOfSlotSet ==
    call.ancestors[CHOOSE i \in SlotPositions : \A j \in SlotPositions : i <= j]

\* a macro call or a Meta from which no slot can be read
StructurallyAmbiguous(it) ==
    \/ it.slot = "Attr" /\ <<it.node, it.owner>> \in AmbiguousMetas
    \/ /\ it.slot = "MacroCall"
       /\ \/ it.node = "OTHER"
          \/ it.node = "ASSOC_ITEM_LIST" /\ it.owner \notin {"TRAIT", "IMPL"}

\* C26: for a name reference in a path segment the slot is decided by the
\* first ancestor of the path that belongs to the slot set, whatever stands
\* above it; when no ancestor belongs to it, or that first one is a macro
\* call or an attribute that is structurally ambiguous, the NameRef context
\* is produced all the same, without a path context.
C26_FirstAncestorDecides ==
    PathSegmentClassified =>
        LET n == Unwrap(ret).nameref_ctx
        IN  /\ n.variant = "NameRef"
            /\ n.dot_access = None
            /\ IsSome(n.nameref) <=> call.found
            /\ IF SlotPositions = {} THEN n.path_ctx = None
               ELSE IF StructurallyAmbiguous(FirstOfSlotSet) THEN n.path_ctx = None
               ELSE /\ IsSome(n.path_ctx)
                    /\ IsSome(PathKindAt(FirstOfSlotSet))
                    /\ Unwrap(n.path_ctx).kind = Unwrap(PathKindAt(FirstOfSlotSet)).kind
                    /\ Unwrap(n.path_ctx).item_kind
                         = Unwrap(PathKindAt(FirstOfSlotSet)).item_kind

\* a macro call with no slot below a path expression: the reference stays
\* without a path context
C26_Witness ==
    /\ PathSegmentClassified
    /\ call.ancestors = <<[slot |-> "MacroCall", node |-> "OTHER", owner |-> "OTHER"],
                          [slot |-> "Expr", node |-> "NONE", owner |-> "NONE"]>>
    /\ Unwrap(ret).nameref_ctx.variant = "NameRef"
    /\ Unwrap(ret).nameref_ctx.path_ctx = None

\* the positions of the ancestors of the pattern that are no patterns
NonPatPositions ==
    {i \in 1..Len(call.ancestors) : call.ancestors[i] \notin PatKinds}

\* the first ancestor of the pattern that is no pattern, "NONE" without one
FirstNonPat ==
    IF NonPatPositions = {} THEN "NONE"
    ELSE call.ancestors[CHOOSE i \in NonPatPositions :
                            \A j \in NonPatPositions : i <= j]

\* C27: pattern_context_for classifies a pattern by its first ancestor that
\* is no pattern: a let statement or a parameter gives Irrefutable with the
\* type flag equal to the presence of a type; a match arm or an if-let gives
\* Refutable; a for loop, any other ancestor or none gives Irrefutable; the
\* type flag is false in every case but let statement and parameter; the
\* parameter is recorded only when the ancestor is a parameter whose list,
\* found in the original tree, is owned by a closure or a function.
C27_PatternByFirstNonPat ==
    (call.fn = "pattern_context_for" /\ IsSome(ret)) =>
        LET p == Unwrap(ret)
        IN  /\ p.refutability =
                 (IF FirstNonPat \in {"MATCH_ARM", "LET_EXPR"} THEN "Refutable"
                  ELSE "Irrefutable")
            /\ p.has_type_ascription
                 <=> (FirstNonPat \in {"LET_STMT", "PARAM"} /\ call.has_ty)
            /\ IsSome(p.param_ctx)
                 <=> /\ FirstNonPat = "PARAM"
                     /\ call.param_list = "found"
                     /\ call.owner \in {"CLOSURE_EXPR", "FN"}
            /\ IsSome(p.param_ctx)
                 => Unwrap(p.param_ctx).kind
                      = (IF call.owner = "FN" THEN "Function" ELSE "Closure")

\* a pattern in a tuple pattern of a match arm inside a let statement with a
\* type: the match arm decides
C27_Witness ==
    /\ call.fn = "pattern_context_for"
    /\ call.ancestors = <<"TUPLE_PAT", "MATCH_ARM">>
    /\ call.has_ty
    /\ IsSome(ret)
    /\ Unwrap(ret).refutability = "Refutable"
    /\ ~Unwrap(ret).has_type_ascription
    /\ IsSome(Unwrap(ret).parent_pat)

\* the function is at the node call.node of the chain, or has returned
ExpectedRunning == call.fn = "expected_type_and_name"

\* C28: expected_type_and_name always terminates; its result is decided by
\* the innermost ancestor of the cursor token of a listed kind: nothing above
\* it is consulted, even if it yields neither type nor name; a parameter
\* list, a statement other than a let statement and an item other than a
\* function yield (none, none); every other ancestor continues the ascent by
\* one node, and past the root the result is (none, none).
C28_InnermostContainerDecides ==
    /\ ExpectedRunning ~> IsSome(ret)
    /\ [](ExpectedRunning /\ IsSome(ret)
            => IF Containers(call) = {} THEN ret = Some(<<None, None>>)
               ELSE /\ ret = match_node(call, Innermost(call))
                    /\ call.node = CHOOSE i \in Containers(call) :
                                       \A j \in Containers(call) : i <= j
                    /\ Innermost(call).kind \in {"PARAM_LIST", "EXPR_STMT", "STRUCT"}
                         => ret = Some(<<None, None>>))
    /\ [][ExpectedRunning =>
            /\ call'.chain = call.chain
            /\ ret = None
            /\ ret' = None
                 => /\ call'.node = call.node + 1
                    /\ call.node > 0 => call.chain[call.node].kind \in OtherKinds
            /\ ret' # None
                 => /\ call'.node = call.node
                    /\ call.node = 0 => call.chain = <<>>]_vars

\* an expression statement inside a function whose return type is known:
\* the statement ended the ascent with neither type nor name
C28_Witness ==
    /\ ExpectedOf("EXPR_STMT")
    /\ call.chain = <<[kind |-> "PATH_EXPR"], [kind |-> "EXPR_STMT"],
                      [kind |-> "FN", to_def |-> Some([ret_type |-> Ty(0, "u32")])]>>
    /\ call.node = 2
    /\ ret = Some(<<None, None>>)

\* the identifier context of the context under construction
IdentCtx == Unwrap(ctx).ident_ctx

\* C29: in every constructed context a NameRef identifier context never has
\* both a dot access and a path context, and a pattern context is present
\* only if the identifier context is a Name of kind IdentPat or a NameRef
\* whose path context has the kind Pat; so never with a dot access, a
\* lifetime, a string or a derive context.
C29_ContextShape ==
    IsSome(ctx) =>
        /\ IdentCtx.variant = "NameRef"
             => ~(IsSome(IdentCtx.dot_access) /\ IsSome(IdentCtx.path_ctx))
        /\ IsSome(Unwrap(ctx).pattern_ctx)
             => /\ \/ IdentCtx.variant = "Name" /\ IdentCtx.kind = "IdentPat"
                   \/ /\ IdentCtx.variant = "NameRef"
                      /\ IsSome(IdentCtx.path_ctx)
                      /\ Unwrap(IdentCtx.path_ctx).kind = "Pat"
                      /\ IdentCtx.dot_access = None
                /\ derive_ctx = None
                /\ ~Unwrap(ctx).existing_derives
        /\ (pc = "done" /\ returned.tag = "Some") => returned.ctx = ctx

\* the caller received a NameRef context of a path in a pattern, with its
\* pattern context
C29_Witness ==
    /\ pc = "done"
    /\ returned.tag = "Some"
    /\ IsSome(Unwrap(returned.ctx).pattern_ctx)
    /\ ReturnedIdentCtx.variant = "NameRef"
    /\ IsSome(ReturnedIdentCtx.path_ctx)
    /\ Unwrap(ReturnedIdentCtx.path_ctx).kind = "Pat"
    /\ Unwrap(Unwrap(returned.ctx).pattern_ctx).refutability = "Refutable"

\* the walker is between the top of 'expansion and the token lookup of fill
WalkerRunning == pc \in {"loop", "ancestors", "derive", "macro", "call_fill", "fill"}

\* C30: at the start of every iteration of 'expansion and at the call of
\* fill the offset lies within the range of the placeholder token, which is
\* a token of the speculative tree: the offset is the insertion offset at
\* first and the start of the mapped token after every adopted expansion;
\* so the unwrapped right-biased lookup of fill never fails.
C30_OffsetInPlaceholder ==
    /\ [](WalkerRunning =>
            /\ fake_ident_token.tree = speculative_file
            /\ fake_ident_token.start <= offset
            /\ offset < fake_ident_token.end
            /\ fake_ident_token.end <= TextEnd(speculative_file)
            /\ ~TokenAtOffsetIsNone(speculative_file)
            /\ (speculative_file.gen = 0 => offset = position.offset)
            /\ (speculative_file.gen > 0 => offset = fake_ident_token.start))
    /\ [][(WalkerRunning /\ speculative_file' # speculative_file) =>
            /\ pc' = "loop"
            /\ speculative_file'.gen = speculative_file.gen + 1
            /\ offset' = fake_ident_token'.start]_vars
    /\ [](ev.step # "panic")
    /\ [](returned.tag = "unwound" => cancelled)

\* fill looked the token up after an adopted expansion had moved the offset
C30_Witness ==
    /\ pc = "done"
    /\ ev.step = "fill"
    /\ speculative_file.gen >= 1
    /\ offset = fake_ident_token.start
    /\ offset # position.offset
    /\ fake_ident_token.tree = speculative_file

====
